---- MODULE Spec2Model ----
(***************************************************************************)
(* Model of the KakaoTalk EDB decryption core (src/src/decrypt.py) and of  *)
(* the ChatInfoManager operation that drives it (src/src/chat_info.py).    *)
(*                                                                         *)
(* Abstraction of the byte level.  A byte string is a sequence of 16-byte  *)
(* AES blocks plus a flag telling whether some bytes short of a block      *)
(* follow them (length not a multiple of 16).  A block is one symbol of    *)
(* BlockValues.  AES, MD5 and SHA-512 are replaced by small arithmetic     *)
(* stand-ins that keep what the code relies on: a block cipher is a        *)
(* permutation of the block values for every key, CBC chains every block   *)
(* with the previous ciphertext block (the iv for the first), and the      *)
(* digests are plain functions of their input, so that two inputs can      *)
(* collide.                                                                *)
(***************************************************************************)
EXTENDS Integers, Sequences, FiniteSets, TLC

VARIABLES device_info, network_keys, cached_credentials, temp_files, database,
          last, probe, server

vars == <<device_info, network_keys, cached_credentials, temp_files, database,
          last, probe, server>>

(***************************************************************************)
(* Bounds of the model.                                                    *)
(***************************************************************************)
\* longest container file, in 16-byte blocks
MaxBlocks == 3
\* blocks per decryption window: stands for the 4096 bytes (256 blocks) of decrypt.py:52,54,73
WindowBlocks == 2
\* the capped attempt bound of a credential search: stands for the 50000 of decrypt.py:122
CappedAttempts == 3
\* longest list of network interface keys
MaxKeys == 2
\* most tables in the catalog of a decrypted database
MaxTables == 2
\* rows read per table: stands for the LIMIT 1000 of decrypt.py:196
RowLimit == 2
\* most temporary files on disk at which the model still starts an extraction
MaxTemps == 2
\* characters of the string that is hashed into the key: stands for the 512 of decrypt.py:36,38
KeyChars == 7
\* longest pragma string, and largest identifier, that key derivation is applied to
MaxPragmaChars == 2
MaxUserId == 12

\* the 16-byte literal b'SQLite format 3\x00', as a block value
Magic == 1

BlockValues == 0..2
NB == Cardinality(BlockValues)

\* an absent value (Python None), and a present one
None == <<>>
Some(x) == <<x>>
ValueOf(opt) == opt[1]

(***************************************************************************)
(* Byte strings.                                                           *)
(***************************************************************************)
RECURSIVE SeqsUpTo(_, _)
SeqsUpTo(S, n) ==
  IF n = 0 THEN {<<>>}
  ELSE LET shorter == SeqsUpTo(S, n - 1)
       IN shorter \cup {Append(s, x) : s \in {t \in shorter : Len(t) = n - 1}, x \in S}

Bytes(blocks, partial) == [blocks |-> blocks, partial |-> partial]

EmptyBytes == Bytes(<<>>, FALSE)

\* every byte string of at most MaxBlocks full blocks, with or without a partial tail
AllBytes == {Bytes(b, p) : b \in SeqsUpTo(BlockValues, MaxBlocks), p \in BOOLEAN}

\* data[i*16 : (i+n)*16] for block offsets: the partial tail belongs to the slice
\* only when the slice runs to the end of the data
Slice(data, from, n) ==
  LET len == Len(data.blocks)
      to  == IF from + n <= len THEN from + n ELSE len
  IN Bytes(SubSeq(data.blocks, from + 1, to), data.partial /\ from + n > len)

Concat(a, b) == Bytes(a.blocks \o b.blocks, b.partial)

\* len(data) > i*16
LongerThan(data, i) == Len(data.blocks) > i \/ (Len(data.blocks) = i /\ data.partial)

(***************************************************************************)
(* Key derivation (stand-ins for AES/SHA-512/base64 and MD5).              *)
(***************************************************************************)
\* a network interface key: the hex string of the registry, by the bytes that
\* bytes.fromhex makes of it (their number, and a value standing for their content)
NetKey(len, val) == [len |-> len, val |-> val]

\* the key lengths AES.new takes (AES-128, AES-192, AES-256)
AesKeySizes == {16, 24, 32}

\* a cipher that takes 16-byte keys only
OnlySixteenBytesAccepted(key) == key.len # 16

\* AES.new(key, AES.MODE_CBC, iv) raises ValueError (decrypt.py:24)
AesKeyRefused(key) == key.len \notin AesKeySizes

\* the value returned when AES.new accepts the key
generate_pragma(uuid, model_name, serial_number, key) ==
  (uuid + 2 * model_name + serial_number + key.val) % NB

generate_key_and_iv(pragma, user_id) ==
  LET key_hash == (pragma + user_id) % NB
  IN [key |-> key_hash, iv |-> (key_hash * key_hash + 1) % NB]

(***************************************************************************)
(* Block cipher engine.                                                    *)
(***************************************************************************)
\* AES block decryption / encryption under key: a permutation of the block values
BlockDecrypt(key, c) == (c - key) % NB
BlockEncrypt(key, p) == (p + key) % NB

\* cipher.decrypt(window) of a fresh AES-CBC cipher: P[i] = D(C[i]) xor C[i-1], C[0] = iv
CbcDecrypt(key, iv, blocks) ==
  [i \in 1..Len(blocks) |->
     (BlockDecrypt(key, blocks[i]) - (IF i = 1 THEN iv ELSE blocks[i - 1])) % NB]

\* standard CBC over the whole file: every window after the first is chained to
\* the last ciphertext block of the window before it
RECURSIVE DecryptChained(_, _, _, _)
DecryptChained(key, iv, enc_db, i) ==
  IF ~LongerThan(enc_db, i) THEN [raised |-> FALSE, data |-> EmptyBytes]
  ELSE LET window == Slice(enc_db, i, WindowBlocks)
           chain  == IF i = 0 THEN iv ELSE enc_db.blocks[i]
       IN IF window.partial
          THEN [raised |-> TRUE, data |-> EmptyBytes]
          ELSE LET rest == DecryptChained(key, iv, enc_db, i + WindowBlocks)
               IN IF rest.raised THEN rest
                  ELSE [raised |-> FALSE,
                        data |-> Concat(Bytes(CbcDecrypt(key, chain, window.blocks), FALSE),
                                        rest.data)]

\* a decryption that advances the iv from one window to the next
RECURSIVE DecryptIvAdvanced(_, _, _, _)
DecryptIvAdvanced(key, iv, enc_db, i) ==
  IF ~LongerThan(enc_db, i) THEN [raised |-> FALSE, data |-> EmptyBytes]
  ELSE LET window == Slice(enc_db, i, WindowBlocks)
       IN IF window.partial
          THEN [raised |-> TRUE, data |-> EmptyBytes]
          ELSE LET rest == DecryptIvAdvanced(key, iv, enc_db, i + WindowBlocks)
               IN IF rest.raised THEN rest
                  ELSE [raised |-> FALSE,
                        data |-> Concat(Bytes(CbcDecrypt(key, (iv + i) % NB, window.blocks),
                                              FALSE),
                                        rest.data)]

\* a decryption that decrypts the whole blocks of a window and drops the bytes
\* short of a block instead of refusing them
RECURSIVE DecryptDropsTail(_, _, _, _)
DecryptDropsTail(key, iv, enc_db, i) ==
  IF ~LongerThan(enc_db, i) THEN [raised |-> FALSE, data |-> EmptyBytes]
  ELSE LET window == Slice(enc_db, i, WindowBlocks)
           rest   == DecryptDropsTail(key, iv, enc_db, i + WindowBlocks)
       IN [raised |-> FALSE,
           data |-> Concat(Bytes(CbcDecrypt(key, iv, window.blocks), FALSE), rest.data)]

RECURSIVE DecryptFrom(_, _, _, _)
DecryptFrom(key, iv, enc_db, i) ==
  IF ~LongerThan(enc_db, i) THEN [raised |-> FALSE, data |-> EmptyBytes]
  ELSE LET window == Slice(enc_db, i, WindowBlocks)
       IN IF window.partial
          THEN [raised |-> TRUE, data |-> EmptyBytes]
          ELSE LET rest == DecryptFrom(key, iv, enc_db, i + WindowBlocks)
               IN IF rest.raised THEN rest
                  ELSE [raised |-> FALSE,
                        data |-> Concat(Bytes(CbcDecrypt(key, iv, window.blocks), FALSE),
                                        rest.data)]

decrypt_database(key, iv, enc_db) == DecryptFrom(key, iv, enc_db, 0)

\* a header check that looks at the length only
header_is_long_enough(data) == Len(data.blocks) >= 1

\* a header check that accepts the literal wherever it stands in the data
header_found_anywhere(data) == \E i \in 1..Len(data.blocks) : data.blocks[i] = Magic

verify_sqlite_header(data) == Len(data.blocks) >= 1 /\ data.blocks[1] = Magic

(***************************************************************************)
(* Credential search.                                                      *)
(***************************************************************************)
\* a search that does not stop at the first valid header but keeps the last one
RECURSIVE FindUserIdKeepsGoing(_, _, _, _)
FindUserIdKeepsGoing(pragma, enc_db, user_id, max_attempts) ==
  IF user_id > max_attempts
  THEN [status |-> "none", user_id |-> 0, tried |-> <<>>]
  ELSE LET kv     == generate_key_and_iv(pragma, user_id)
           dec_db == decrypt_database(kv.key, kv.iv, Slice(enc_db, 0, WindowBlocks))
           r      == FindUserIdKeepsGoing(pragma, enc_db, user_id + 1, max_attempts)
       IN IF dec_db.raised
          THEN [status |-> "raised", user_id |-> 0, tried |-> <<user_id>>]
          ELSE IF verify_sqlite_header(dec_db.data) /\ r.status # "found"
          THEN [status |-> "found", user_id |-> user_id, tried |-> <<user_id>> \o r.tried]
          ELSE [r EXCEPT !.tried = <<user_id>> \o @]

\* a search that takes the first identifier without looking at the header
FindUserIdAcceptsFirst(pragma, enc_db, user_id, max_attempts) ==
  IF user_id > max_attempts
  THEN [status |-> "none", user_id |-> 0, tried |-> <<>>]
  ELSE LET kv     == generate_key_and_iv(pragma, user_id)
           dec_db == decrypt_database(kv.key, kv.iv, Slice(enc_db, 0, WindowBlocks))
       IN IF dec_db.raised
          THEN [status |-> "raised", user_id |-> 0, tried |-> <<user_id>>]
          ELSE [status |-> "found", user_id |-> user_id, tried |-> <<user_id>>]

RECURSIVE FindUserIdFrom(_, _, _, _)
FindUserIdFrom(pragma, enc_db, user_id, max_attempts) ==
  IF user_id > max_attempts
  THEN [status |-> "none", user_id |-> 0, tried |-> <<>>]
  ELSE LET kv     == generate_key_and_iv(pragma, user_id)
           dec_db == decrypt_database(kv.key, kv.iv, Slice(enc_db, 0, WindowBlocks))
       IN IF dec_db.raised
          THEN [status |-> "raised", user_id |-> 0, tried |-> <<user_id>>]
          ELSE IF verify_sqlite_header(dec_db.data)
          THEN [status |-> "found", user_id |-> user_id, tried |-> <<user_id>>]
          ELSE LET r == FindUserIdFrom(pragma, enc_db, user_id + 1, max_attempts)
               IN [r EXCEPT !.tried = <<user_id>> \o @]

find_user_id(pragma, enc_db, max_attempts) ==
  FindUserIdFrom(pragma, enc_db, 1, max_attempts)

\* a loop over the candidates that goes on after a success and keeps the last one
RECURSIVE SearchKeepsGoing(_, _, _, _, _, _)
SearchKeepsGoing(uuid, model, serial, keys, enc_db, n) ==
  IF n > Len(keys)
  THEN [outcome |-> "CredentialsNotFound", creds |-> None, tried |-> <<>>, searches |-> 0]
  ELSE LET net_key == keys[n]
           rest    == SearchKeepsGoing(uuid, model, serial, keys, enc_db, n + 1)
       IN IF net_key.len # 16
          THEN rest
          ELSE LET pragma == generate_pragma(uuid, model, serial, net_key)
                   r      == find_user_id(pragma, enc_db, CappedAttempts)
                   mine   == [k \in 1..Len(r.tried) |-> <<n, r.tried[k]>>]
               IN IF r.status = "raised"
                  THEN [outcome |-> "ValueError", creds |-> None, tried |-> mine,
                        searches |-> 1]
                  ELSE IF r.status = "found" /\ rest.outcome # "found"
                  THEN [outcome |-> "found",
                        creds |-> Some([uuid |-> uuid, model |-> model, serial |-> serial,
                                        network_key |-> net_key, pragma |-> pragma,
                                        user_id |-> r.user_id]),
                        tried |-> mine \o rest.tried, searches |-> rest.searches + 1]
                  ELSE [rest EXCEPT !.tried = mine \o @, !.searches = @ + 1]

\* the attempt bound find_user_id has when it is given none: stands for the
\* 100000 of decrypt.py:66, twice the capped bound
DefaultMaxAttempts == 2 * CappedAttempts

\* a loop over the candidates that leaves find_user_id its default bound
RECURSIVE SearchUncapped(_, _, _, _, _, _)
SearchUncapped(uuid, model, serial, keys, enc_db, n) ==
  IF n > Len(keys)
  THEN [outcome |-> "CredentialsNotFound", creds |-> None, tried |-> <<>>, searches |-> 0]
  ELSE LET net_key == keys[n]
       IN IF net_key.len # 16
          THEN SearchUncapped(uuid, model, serial, keys, enc_db, n + 1)
          ELSE LET pragma == generate_pragma(uuid, model, serial, net_key)
                   r      == find_user_id(pragma, enc_db, DefaultMaxAttempts)
                   mine   == [k \in 1..Len(r.tried) |-> <<n, r.tried[k]>>]
               IN IF r.status = "raised"
                  THEN [outcome |-> "ValueError", creds |-> None, tried |-> mine,
                        searches |-> 1]
                  ELSE IF r.status = "found"
                  THEN [outcome |-> "found",
                        creds |-> Some([uuid |-> uuid, model |-> model, serial |-> serial,
                                        network_key |-> net_key, pragma |-> pragma,
                                        user_id |-> r.user_id]),
                        tried |-> mine, searches |-> 1]
                  ELSE LET rest == SearchUncapped(uuid, model, serial, keys, enc_db, n + 1)
                       IN [rest EXCEPT !.tried = mine \o @, !.searches = @ + 1]

\* the loop of _find_working_credentials over network_keys[n..].
\* tried lists the <<candidate, identifier>> pairs whose header was checked, in
\* order; searches counts the find_user_id calls (one pragma is derived for each)
RECURSIVE SearchFrom(_, _, _, _, _, _)
SearchFrom(uuid, model, serial, keys, enc_db, n) ==
  IF n > Len(keys)
  THEN [outcome |-> "CredentialsNotFound", creds |-> None, tried |-> <<>>, searches |-> 0]
  ELSE LET net_key == keys[n]
       IN IF net_key.len # 16
          THEN SearchFrom(uuid, model, serial, keys, enc_db, n + 1)
          ELSE LET pragma == generate_pragma(uuid, model, serial, net_key)
                   r      == find_user_id(pragma, enc_db, CappedAttempts)
                   mine   == [k \in 1..Len(r.tried) |-> <<n, r.tried[k]>>]
               IN IF r.status = "raised"
                  THEN [outcome |-> "ValueError", creds |-> None, tried |-> mine,
                        searches |-> 1]
                  ELSE IF r.status = "found"
                  THEN [outcome |-> "found",
                        creds |-> Some([uuid |-> uuid, model |-> model, serial |-> serial,
                                        network_key |-> net_key, pragma |-> pragma,
                                        user_id |-> r.user_id]),
                        tried |-> mine, searches |-> 1]
                  ELSE LET rest == SearchFrom(uuid, model, serial, keys, enc_db, n + 1)
                       IN [rest EXCEPT !.tried = mine \o @, !.searches = @ + 1]

\* a _find_working_credentials that searches even when the cache holds a value
find_working_credentials_ignores_cache(cached, dev, keys, enc_db) ==
  IF dev = None
  THEN [outcome |-> "MissingDeviceInfo", creds |-> None, tried |-> <<>>, searches |-> 0]
  ELSE LET uuid   == ValueOf(dev).uuid
           model  == ValueOf(dev).model
           serial == ValueOf(dev).serial
       IN IF uuid = 0 \/ model = 0 \/ serial = 0
          THEN [outcome |-> "MissingDeviceInfo", creds |-> None, tried |-> <<>>,
                searches |-> 0]
          ELSE SearchFrom(uuid, model, serial, keys, enc_db, 1)

\* a _find_working_credentials that requires the uuid alone
find_working_credentials_checks_uuid_only(cached, dev, keys, enc_db) ==
  IF cached # None
  THEN [outcome |-> "cached", creds |-> cached, tried |-> <<>>, searches |-> 0]
  ELSE IF dev = None
  THEN [outcome |-> "MissingDeviceInfo", creds |-> None, tried |-> <<>>, searches |-> 0]
  ELSE IF ValueOf(dev).uuid = 0
  THEN [outcome |-> "MissingDeviceInfo", creds |-> None, tried |-> <<>>, searches |-> 0]
  ELSE SearchFrom(ValueOf(dev).uuid, ValueOf(dev).model, ValueOf(dev).serial,
                  keys, enc_db, 1)

\* a _find_working_credentials that checks the cached credentials against the
\* first window of this file and searches again, overwriting the cache, when
\* they do not open it
find_working_credentials_revalidates(cached, dev, keys, enc_db) ==
  IF cached # None
  THEN LET kv  == generate_key_and_iv(ValueOf(cached).pragma, ValueOf(cached).user_id)
           dec == decrypt_database(kv.key, kv.iv, Slice(enc_db, 0, WindowBlocks))
       IN IF ~dec.raised /\ ~verify_sqlite_header(dec.data)
          THEN SearchFrom(ValueOf(cached).uuid, ValueOf(cached).model,
                          ValueOf(cached).serial, keys, enc_db, 1)
          ELSE [outcome |-> "cached", creds |-> cached, tried |-> <<>>, searches |-> 0]
  ELSE IF dev = None
  THEN [outcome |-> "MissingDeviceInfo", creds |-> None, tried |-> <<>>, searches |-> 0]
  ELSE IF ValueOf(dev).uuid = 0 \/ ValueOf(dev).model = 0 \/ ValueOf(dev).serial = 0
  THEN [outcome |-> "MissingDeviceInfo", creds |-> None, tried |-> <<>>, searches |-> 0]
  ELSE SearchFrom(ValueOf(dev).uuid, ValueOf(dev).model, ValueOf(dev).serial,
                  keys, enc_db, 1)

\* outcome: "cached" and "found" return creds; "MissingDeviceInfo" (decrypt.py:101-111)
\* and "CredentialsNotFound" (decrypt.py:135) return None; "ValueError" is raised.
\* A found value is the new content of the cache (decrypt.py:125).
find_working_credentials(cached, dev, keys, enc_db) ==
  IF cached # None
  THEN [outcome |-> "cached", creds |-> cached, tried |-> <<>>, searches |-> 0]
  ELSE IF dev = None
  THEN [outcome |-> "MissingDeviceInfo", creds |-> None, tried |-> <<>>, searches |-> 0]
  ELSE LET uuid   == ValueOf(dev).uuid
           model  == ValueOf(dev).model
           serial == ValueOf(dev).serial
       IN IF uuid = 0 \/ model = 0 \/ serial = 0
          THEN [outcome |-> "MissingDeviceInfo", creds |-> None, tried |-> <<>>,
                searches |-> 0]
          ELSE SearchFrom(uuid, model, serial, keys, enc_db, 1)

CacheAfter(cached, found) == IF found.outcome = "found" THEN found.creds ELSE cached

(***************************************************************************)
(* EDB decryptor.                                                          *)
(***************************************************************************)
\* decrypt.py:145-156, given what _find_working_credentials returned (found).
\* value is the plaintext returned (None when the call returns None or raises);
\* creds_outcome and creds are what _find_working_credentials gave, and
\* full_decrypts counts the decrypt_database calls on the whole file.
FullDecrypt(cached, found, enc_db) ==
  LET base == [outcome |-> found.outcome, raised |-> FALSE, value |-> None,
               cache |-> CacheAfter(cached, found),
               creds_outcome |-> found.outcome, creds |-> found.creds,
               tried |-> found.tried, searches |-> found.searches,
               full_decrypts |-> 0]
  IN IF found.outcome = "ValueError"
     THEN [base EXCEPT !.raised = TRUE]
     ELSE IF found.creds = None
     THEN base
     ELSE LET creds  == ValueOf(found.creds)
              kv     == generate_key_and_iv(creds.pragma, creds.user_id)
              dec_db == decrypt_database(kv.key, kv.iv, enc_db)
          IN IF dec_db.raised
             THEN [base EXCEPT !.outcome = "ValueError", !.raised = TRUE,
                               !.full_decrypts = 1]
             ELSE IF ~verify_sqlite_header(dec_db.data)
             THEN [base EXCEPT !.outcome = "DecryptionFailed", !.full_decrypts = 1]
             ELSE [base EXCEPT !.outcome = "ok", !.value = Some(dec_db.data),
                               !.full_decrypts = 1]

\* the file could not be opened (decrypt.py:141)
OpenFailed(cached) ==
  [outcome |-> "IOError", raised |-> TRUE, value |-> None, cache |-> cached,
   creds_outcome |-> "none", creds |-> None, tried |-> <<>>, searches |-> 0,
   full_decrypts |-> 0]

\* a decrypt_file that, when the cached credentials fail the validation, searches
\* again against this file and decrypts once more
decrypt_file_researches(cached, dev, keys, file) ==
  IF file = None
  THEN OpenFailed(cached)
  ELSE LET enc_db == ValueOf(file)
           r == FullDecrypt(cached, find_working_credentials(cached, dev, keys, enc_db),
                            enc_db)
       IN IF r.outcome = "DecryptionFailed" /\ r.creds_outcome = "cached"
          THEN LET again == FullDecrypt(None,
                                        find_working_credentials(None, dev, keys, enc_db),
                                        enc_db)
               IN [again EXCEPT !.cache = IF again.cache = None THEN cached ELSE @,
                                !.creds_outcome = "cached",
                                !.full_decrypts = @ + 1]
          ELSE r

\* a decrypt_file that drops the cached credentials when the validation fails
decrypt_file_invalidates(cached, dev, keys, file) ==
  IF file = None
  THEN OpenFailed(cached)
  ELSE LET enc_db == ValueOf(file)
           r == FullDecrypt(cached, find_working_credentials(cached, dev, keys, enc_db),
                            enc_db)
       IN IF r.outcome = "DecryptionFailed" THEN [r EXCEPT !.cache = None] ELSE r

\* file: None when the path cannot be opened, else the bytes read
decrypt_file(cached, dev, keys, file) ==
  IF file = None
  THEN OpenFailed(cached)
  ELSE FullDecrypt(cached,
                   find_working_credentials(cached, dev, keys, ValueOf(file)),
                   ValueOf(file))

(***************************************************************************)
(* Temporary files and the decrypted database.                             *)
(***************************************************************************)
\* a mkstemp that hands out the same name again
ReusedTemp(existing) == 1

\* tempfile.mkstemp: a name no existing file has
FreshTemp(existing) == CHOOSE i \in 1..(Cardinality(existing) + 1) : i \notin existing

\* what the environment does to mkstemp / os.write (or shutil.copy2)
TempFates == {"ok", "mkstemp_fails", "write_fails"}

\* temps is the set of temporary files on disk after the call; temp is the file the
\* call created (0: none); path is the value returned (0: None or raised)
WriteTemp(d, temps, fate) ==
  LET base == [outcome |-> d.outcome, raised |-> d.raised, cache |-> d.cache,
               creds_outcome |-> d.creds_outcome, creds |-> d.creds,
               tried |-> d.tried, searches |-> d.searches,
               full_decrypts |-> d.full_decrypts,
               temps |-> temps, temp |-> 0, path |-> 0, written |-> None]
  IN IF d.raised \/ d.value = None
     THEN base
     ELSE IF fate = "mkstemp_fails"
     THEN [base EXCEPT !.outcome = "OSError", !.raised = TRUE]
     ELSE LET temp_path == FreshTemp(temps)
          IN IF fate = "write_fails"
             THEN [base EXCEPT !.outcome = "OSError", !.raised = TRUE,
                               !.temps = temps \cup {temp_path}, !.temp = temp_path]
             ELSE [base EXCEPT !.temps = temps \cup {temp_path}, !.temp = temp_path,
                               !.path = temp_path, !.written = d.value]

\* d is what decrypt_file returned; the rest of decrypt_to_temp_file acts on it
decrypt_to_temp_file(cached, dev, keys, file, temps, fate) ==
  WriteTemp(decrypt_file(cached, dev, keys, file), temps, fate)

\* characters and table names
UpperCase == <<"A", "B", "C", "D", "E", "F", "G", "H", "I", "J", "K", "L", "M",
               "N", "O", "P", "Q", "R", "S", "T", "U", "V", "W", "X", "Y", "Z">>
LowerCase == <<"a", "b", "c", "d", "e", "f", "g", "h", "i", "j", "k", "l", "m",
               "n", "o", "p", "q", "r", "s", "t", "u", "v", "w", "x", "y", "z">>

LowerChar(c) ==
  IF \E i \in 1..Len(UpperCase) : UpperCase[i] = c
  THEN LowerCase[CHOOSE i \in 1..Len(UpperCase) : UpperCase[i] = c]
  ELSE c

\* str.lower()
Lower(str) == [i \in 1..Len(str) |-> LowerChar(str[i])]

\* sub in str
Contains(str, sub) ==
  \E i \in 0..(Len(str) - Len(sub)) : SubSeq(str, i + 1, i + Len(sub)) = sub

\* a table filter that compares the names as they are spelled
IsMessageTableCaseSensitive(table_name) ==
  \/ Contains(table_name, <<"l", "o", "g">>)
  \/ Contains(table_name, <<"m", "e", "s", "s", "a", "g", "e">>)

\* decrypt.py:194
IsMessageTable(table_name) ==
  \/ Contains(Lower(table_name), <<"l", "o", "g">>)
  \/ Contains(Lower(table_name), <<"m", "e", "s", "s", "a", "g", "e">>)

ChatLogs == <<"c", "h", "a", "t", "L", "o", "g", "s", "_", "1">>

TableNames ==
  { ChatLogs,
    <<"w", "e", "i", "r", "d", "T", "a", "b", "l", "e">>,
    <<"M", "E", "S", "S", "A", "G", "E", "S">> }

\* a table: its name, its rows (row k has sendAt = k) and whether the query
\* SELECT * FROM name ORDER BY sendAt DESC fails on it
Tables ==
  {t \in [name : TableNames, nrows : {1, RowLimit + 1}, broken : BOOLEAN] :
     (t.broken \/ t.name # ChatLogs) => t.nrows = 1}

\* the catalogs of a database: table names are unique
Catalogs ==
  {c \in SeqsUpTo(Tables, MaxTables) :
     \A i, j \in 1..Len(c) : i # j => c[i].name # c[j].name}

\* what sqlite finds in the decrypted file: None when the catalog query fails
\* (not a database after all), else its catalog
Databases == {None} \cup {Some(c) : c \in Catalogs}

\* SELECT * FROM table ORDER BY sendAt DESC LIMIT 1000, as <<table name, sendAt>> rows
QueryTable(table) ==
  LET n == IF table.nrows < RowLimit THEN table.nrows ELSE RowLimit
  IN [k \in 1..n |-> <<table.name, table.nrows + 1 - k>>]

\* a loop that lets the failure of one table's query end the extraction
RECURSIVE ReadTablesAborts(_, _)
ReadTablesAborts(tables, i) ==
  IF i > Len(tables) THEN <<>>
  ELSE IF IsMessageTable(tables[i].name) /\ tables[i].broken THEN <<>>
  ELSE (IF IsMessageTable(tables[i].name)
        THEN QueryTable(tables[i]) ELSE <<>>) \o ReadTablesAborts(tables, i + 1)

\* the loop of get_messages_from_edb over tables[i..]
RECURSIVE ReadTables(_, _)
ReadTables(tables, i) ==
  IF i > Len(tables) THEN <<>>
  ELSE (IF IsMessageTable(tables[i].name) /\ ~tables[i].broken
        THEN QueryTable(tables[i]) ELSE <<>>) \o ReadTables(tables, i + 1)

\* tables whose SELECT was executed
Queried(tables) == {i \in 1..Len(tables) : IsMessageTable(tables[i].name)}

\* t is what decrypt_to_temp_file returned: the body of get_messages_from_edb
\* after it, the finally clause included
ReadMessages(t, db) ==
  LET base == [outcome |-> t.outcome, raised |-> t.raised, cache |-> t.cache,
               creds_outcome |-> t.creds_outcome, creds |-> t.creds,
               tried |-> t.tried, searches |-> t.searches,
               full_decrypts |-> t.full_decrypts, temps |-> t.temps,
               created |-> IF t.temp = 0 THEN {} ELSE {t.temp}, removed |-> <<>>,
               written |-> t.written, messages |-> <<>>, queried |-> {}]
  IN IF t.raised \/ t.path = 0
     THEN base
     ELSE IF db = None
     THEN [base EXCEPT !.outcome = "DatabaseError", !.raised = TRUE,
                       !.temps = t.temps \ {t.path}, !.removed = <<t.path>>]
     ELSE [base EXCEPT !.messages = ReadTables(ValueOf(db), 1),
                       !.queried = Queried(ValueOf(db)),
                       !.temps = t.temps \ {t.path}, !.removed = <<t.path>>]

get_messages_from_edb(cached, dev, keys, file, temps, fate, db) ==
  ReadMessages(decrypt_to_temp_file(cached, dev, keys, file, temps, fate), db)

(***************************************************************************)
(* State machine of one decryptor instance.                                *)
(***************************************************************************)
DeviceInfos ==
  {None} \cup {Some([uuid |-> u, model |-> m, serial |-> s]) :
                 <<u, m, s>> \in {<<1, 1, 1>>, <<0, 1, 1>>, <<1, 1, 0>>}}

NetKeys == {NetKey(16, 0), NetKey(16, 1), NetKey(8, 0)}

\* the interface names of the registry are distinct
NetKeyLists ==
  {l \in SeqsUpTo(NetKeys, MaxKeys) : \A i, j \in 1..Len(l) : i # j => l[i] # l[j]}

Files == {None} \cup {Some(b) : b \in AllBytes}

\* the containers that hold no more than their header block (the only block that
\* the credential search and the validation look at)
HeaderFiles == {f \in Files : f # None => Len(ValueOf(f).blocks) <= 1}

NoCall ==
  [op |-> "none", file |-> None, outcome |-> "none", raised |-> FALSE, value |-> None,
   creds_outcome |-> "none", creds |-> None, tried |-> <<>>, searches |-> 0,
   full_decrypts |-> 0,
   created |-> {}, removed |-> <<>>, written |-> None,
   messages |-> <<>>, queried |-> {}, copies |-> {},
   name |-> "", handler_raised |-> FALSE, result |-> <<>>, before |-> None,
   used |-> {}]

NoProbe == [kind |-> "none"]

\* the globals of the server module before the first tool call, and no
\* KakaoDecryptor or ChatInfoManager constructed yet (0 stands for None)
NoServer ==
  [_decryptor |-> 0, _chat_manager |-> 0, _todo_extractor |-> 0,
   decryptors |-> <<>>, managers |-> <<>>]

\* KakaoDecryptor.__init__
Init ==
  /\ device_info \in DeviceInfos
  /\ network_keys \in NetKeyLists
  /\ cached_credentials = None
  /\ temp_files = {}
  /\ database = None
  /\ last = NoCall
  /\ probe = NoProbe
  /\ server = NoServer

\* the same, on a machine with at most one network interface and with the
\* database that the containers of the installation hold
InitExtract ==
  /\ device_info \in DeviceInfos
  /\ network_keys \in {l \in NetKeyLists : Len(l) <= 1}
  /\ cached_credentials = None
  /\ temp_files = {}
  /\ database \in Databases
  /\ last = NoCall
  /\ probe = NoProbe
  /\ server = NoServer

DecryptFile(files) ==
  \E file \in files :
    \E r \in {decrypt_file(cached_credentials, device_info, network_keys, file)} :
       /\ cached_credentials' = r.cache
       /\ last' = [NoCall EXCEPT !.op = "decrypt_file", !.file = file,
                     !.outcome = r.outcome, !.raised = r.raised, !.value = r.value,
                     !.creds_outcome = r.creds_outcome, !.creds = r.creds,
                     !.tried = r.tried, !.searches = r.searches,
                     !.full_decrypts = r.full_decrypts]
       /\ UNCHANGED <<device_info, network_keys, temp_files, database, probe, server>>

GetMessagesFromEdb(files) ==
  /\ Cardinality(temp_files) < MaxTemps
  /\ \E file \in files, fate \in TempFates :
       \E r \in {get_messages_from_edb(cached_credentials, device_info, network_keys,
                                       file, temp_files, fate, database)} :
          /\ cached_credentials' = r.cache
          /\ temp_files' = r.temps
          /\ last' = [NoCall EXCEPT !.op = "get_messages_from_edb", !.file = file,
                        !.outcome = r.outcome, !.raised = r.raised,
                        !.creds_outcome = r.creds_outcome, !.creds = r.creds,
                        !.tried = r.tried, !.searches = r.searches,
                        !.full_decrypts = r.full_decrypts,
                        !.created = r.created, !.removed = r.removed,
                        !.written = r.written,
                        !.messages = r.messages, !.queried = r.queried]
          /\ UNCHANGED <<device_info, network_keys, database, probe, server>>

\* find_user_id applied to a pragma, a ciphertext and an attempt bound
Pragmas == 0..(NB - 1)

FindInputs ==
  {[kind |-> "find_user_id", pragma |-> pragma, enc_db |-> enc_db,
    max_attempts |-> max_attempts, done |-> FALSE,
    result |-> [status |-> "none", user_id |-> 0, tried |-> <<>>]] :
     pragma \in Pragmas, enc_db \in AllBytes, max_attempts \in 0..(CappedAttempts + 1)}

FindUserId ==
  /\ probe.kind = "find_user_id"
  /\ ~probe.done
  /\ probe' = [probe EXCEPT !.done = TRUE,
                 !.result = find_user_id(probe.pragma, probe.enc_db, probe.max_attempts)]
  /\ UNCHANGED <<device_info, network_keys, cached_credentials, temp_files,
                 database, last, server>>

Next == DecryptFile(Files)

Spec == Init /\ [][Next]_vars

NextExtract == DecryptFile(HeaderFiles) \/ GetMessagesFromEdb(HeaderFiles)

SpecExtract == InitExtract /\ [][NextExtract]_vars

InitFind ==
  /\ device_info = None
  /\ network_keys = <<>>
  /\ cached_credentials = None
  /\ temp_files = {}
  /\ database = None
  /\ last = NoCall
  /\ probe \in FindInputs
  /\ server = NoServer

NextFind == FindUserId

SpecFind == InitFind /\ [][NextFind]_vars

\* decrypt_database applied to a key, an iv and a ciphertext, and to a second
\* ciphertext of the same length
SameLengthPairs(bytes) ==
  {p \in bytes \X bytes :
     Len(p[1].blocks) = Len(p[2].blocks) /\ p[1].partial = p[2].partial}

EngineInputs(bytes) ==
  {[kind |-> "decrypt_database", key |-> key, iv |-> iv,
    enc_db |-> p[1], other |-> p[2], done |-> FALSE,
    result |-> [raised |-> FALSE, data |-> EmptyBytes],
    other_result |-> [raised |-> FALSE, data |-> EmptyBytes]] :
     key \in BlockValues, iv \in BlockValues, p \in SameLengthPairs(bytes)}

DecryptDatabase ==
  /\ probe.kind = "decrypt_database"
  /\ ~probe.done
  /\ probe' = [probe EXCEPT !.done = TRUE,
                 !.result = decrypt_database(probe.key, probe.iv, probe.enc_db),
                 !.other_result = decrypt_database(probe.key, probe.iv, probe.other)]
  /\ UNCHANGED <<device_info, network_keys, cached_credentials, temp_files,
                 database, last, server>>

InitEngine ==
  /\ device_info = None
  /\ network_keys = <<>>
  /\ cached_credentials = None
  /\ temp_files = {}
  /\ database = None
  /\ last = NoCall
  /\ probe \in EngineInputs(AllBytes)
  /\ server = NoServer

NextEngine == DecryptDatabase

SpecEngine == InitEngine /\ [][NextEngine]_vars

\* generate_pragma applied to a device secret and a key of whatever length
KeyLengths == {0, 8, 15, 16, 17, 24, 32, 33}

PragmaInputs ==
  {[kind |-> "generate_pragma", uuid |-> uuid, model |-> model, serial |-> serial,
    key |-> NetKey(len, val), done |-> FALSE,
    result |-> [raised |-> FALSE, value |-> None]] :
     uuid \in 0..1, model \in 0..1, serial \in 0..1, len \in KeyLengths, val \in 0..1}

GeneratePragma ==
  /\ probe.kind = "generate_pragma"
  /\ ~probe.done
  /\ probe' = [probe EXCEPT !.done = TRUE,
                 !.result =
                   IF AesKeyRefused(probe.key)
                   THEN [raised |-> TRUE, value |-> None]
                   ELSE [raised |-> FALSE,
                         value |-> Some(generate_pragma(probe.uuid, probe.model,
                                                        probe.serial, probe.key))]]
  /\ UNCHANGED <<device_info, network_keys, cached_credentials, temp_files,
                 database, last, server>>

InitPragma ==
  /\ device_info = None
  /\ network_keys = <<>>
  /\ cached_credentials = None
  /\ temp_files = {}
  /\ database = None
  /\ last = NoCall
  /\ probe \in PragmaInputs
  /\ server = NoServer

NextPragma == GeneratePragma

SpecPragma == InitPragma /\ [][NextPragma]_vars

\* generate_key_and_iv, statement by statement, on strings of characters
PragmaChars == {"a", "b"}

Digits == <<"0", "1", "2", "3", "4", "5", "6", "7", "8", "9">>

\* str(user_id)
RECURSIVE Decimal(_)
Decimal(n) ==
  IF n < 10 THEN <<Digits[n + 1]>>
  ELSE Decimal(n \div 10) \o <<Digits[(n % 10) + 1]>>

\* the strings passed as user_id: the decimal identifiers, and the empty string
UserIdStrings == {<<>>} \cup {Decimal(n) : n \in 1..MaxUserId}

\* a string that is left as long as the doubling made it
NotTruncated(key) == key

\* key[:512]
Truncated(key) == SubSeq(key, 1, KeyChars)

\* stand-in for hashlib.md5(key.encode()).digest()
RECURSIVE Md5(_)
Md5(str) ==
  IF str = <<>> THEN 0
  ELSE LET c == str[1]
           v == IF c = "a" THEN 1
                ELSE IF c = "b" THEN 2
                ELSE CHOOSE d \in 0..9 : Digits[d + 1] = c
       IN (v + Md5(Tail(str))) % NB

KeyInputs ==
  {[kind |-> "generate_key_and_iv", pragma |-> pragma, user_id |-> user_id,
    pc |-> "concat", key |-> <<>>, result |-> None] :
     pragma \in SeqsUpTo(PragmaChars, MaxPragmaChars), user_id \in UserIdStrings}

\* key = pragma + user_id
KeyConcat ==
  /\ probe.kind = "generate_key_and_iv"
  /\ probe.pc = "concat"
  /\ probe' = [probe EXCEPT !.pc = "while", !.key = probe.pragma \o probe.user_id]
  /\ UNCHANGED <<device_info, network_keys, cached_credentials, temp_files,
                 database, last, server>>

\* while len(key) < 512: key += key
KeyDouble ==
  /\ probe.kind = "generate_key_and_iv"
  /\ probe.pc = "while"
  /\ Len(probe.key) < KeyChars
  /\ probe' = [probe EXCEPT !.key = probe.key \o probe.key]
  /\ UNCHANGED <<device_info, network_keys, cached_credentials, temp_files,
                 database, last, server>>

\* key = key[:512], and the two digests of the result
KeyTruncateAndHash ==
  /\ probe.kind = "generate_key_and_iv"
  /\ probe.pc = "while"
  /\ Len(probe.key) >= KeyChars
  /\ \E key \in {Truncated(probe.key)} :
       probe' = [probe EXCEPT !.pc = "done", !.key = key,
                   !.result = Some([key |-> Md5(key),
                                    iv |-> (Md5(key) * Md5(key) + 1) % NB])]
  /\ UNCHANGED <<device_info, network_keys, cached_credentials, temp_files,
                 database, last, server>>

InitKey ==
  /\ device_info = None
  /\ network_keys = <<>>
  /\ cached_credentials = None
  /\ temp_files = {}
  /\ database = None
  /\ last = NoCall
  /\ probe \in KeyInputs
  /\ server = NoServer

NextKey == KeyConcat \/ KeyDouble \/ KeyTruncateAndHash

\* the statements of one call run one after the other without stopping
SpecKey == InitKey /\ [][NextKey]_vars /\ WF_vars(NextKey)

\* verify_sqlite_header applied to a byte string and to a second one
HeaderInputs(bytes) ==
  {[kind |-> "verify_sqlite_header", data |-> data, other |-> other, done |-> FALSE,
    result |-> FALSE, other_result |-> FALSE] :
     data \in bytes, other \in bytes}

VerifySqliteHeader ==
  /\ probe.kind = "verify_sqlite_header"
  /\ ~probe.done
  /\ probe' = [probe EXCEPT !.done = TRUE,
                 !.result = verify_sqlite_header(probe.data),
                 !.other_result = verify_sqlite_header(probe.other)]
  /\ UNCHANGED <<device_info, network_keys, cached_credentials, temp_files,
                 database, last, server>>

InitHeader ==
  /\ device_info = None
  /\ network_keys = <<>>
  /\ cached_credentials = None
  /\ temp_files = {}
  /\ database = None
  /\ last = NoCall
  /\ probe \in HeaderInputs(AllBytes)
  /\ server = NoServer

NextHeader == VerifySqliteHeader

SpecHeader == InitHeader /\ [][NextHeader]_vars

(***************************************************************************)
(* ChatInfoManager: the operations that read a copy of a source file.      *)
(***************************************************************************)
\* what the environment does to tempfile.mkstemp / shutil.copy2
CopyFates == {"ok", "mkstemp_fails", "copy_fails"}

\* what the environment does to an os.remove
RemoveFates == {"ok", "remove_fails"}

\* src is the content of the source file (None: there is no such file); temps is
\* the set of temporary files on disk after the call, temp the file the call
\* created (0: none), path the value returned (0: None)
_copy_file_safely(src, temps, fate) ==
  IF fate = "mkstemp_fails"
  THEN [temps |-> temps, temp |-> 0, path |-> 0]
  ELSE LET temp_path == FreshTemp(temps)
       IN IF src = None \/ fate = "copy_fails"
          THEN [temps |-> temps \cup {temp_path}, temp |-> temp_path, path |-> 0]
          ELSE [temps |-> temps \cup {temp_path}, temp |-> temp_path,
                path |-> temp_path]

\* if os.path.exists(path): try: os.remove(path) except: pass
RemoveQuietly(path, temps, fate) ==
  IF path \in temps /\ fate = "ok" THEN temps \ {path} ELSE temps

\* the files that _copy_file_safely created
CopiesOf(c) == IF c.temp = 0 THEN {} ELSE {c.temp}

\* c is what _copy_file_safely returned; rows is what the query returns on the
\* copy (None: sqlite raises)
ReadCopy(c, rows, remove_fate) ==
  LET base == [outcome |-> "empty", raised |-> FALSE, temps |-> c.temps,
               copies |-> CopiesOf(c), rows |-> <<>>]
  IN IF c.path = 0
     THEN base
     ELSE [base EXCEPT !.outcome = IF rows = None THEN "empty" ELSE "rows",
                       !.rows = IF rows = None THEN <<>> ELSE ValueOf(rows),
                       !.temps = RemoveQuietly(c.path, c.temps, remove_fate)]

_read_sqlite_safely(src, temps, copy_fate, rows, remove_fate) ==
  ReadCopy(_copy_file_safely(src, temps, copy_fate), rows, remove_fate)

\* c is what _copy_file_safely returned and t what decrypt_to_temp_file returned
\* on the copy; remove_fates are the fates of the two os.remove, temp_db first
QueryDecrypted(c, t, rows, remove_fates) ==
  LET base == [outcome |-> t.outcome, raised |-> t.raised, cache |-> t.cache,
               creds_outcome |-> t.creds_outcome, creds |-> t.creds,
               tried |-> t.tried, searches |-> t.searches,
               full_decrypts |-> t.full_decrypts,
               temps |-> RemoveQuietly(c.path, t.temps, remove_fates[2]),
               copies |-> CopiesOf(c),
               created |-> IF t.temp = 0 THEN {} ELSE {t.temp}, removed |-> <<>>,
               written |-> t.written, rows |-> <<>>]
  IN IF t.raised \/ t.path = 0
     THEN base
     ELSE [base EXCEPT
             !.rows = IF rows = None THEN <<>> ELSE ValueOf(rows),
             !.temps = RemoveQuietly(c.path,
                                     RemoveQuietly(t.path, t.temps, remove_fates[1]),
                                     remove_fates[2]),
             !.removed = IF remove_fates[1] = "ok" THEN <<t.path>> ELSE <<>>]

\* the result of a call that did nothing with the decryptor
NoDecrypt(cached, temps) ==
  [outcome |-> "empty", raised |-> FALSE, cache |-> cached,
   creds_outcome |-> "none", creds |-> None, tried |-> <<>>, searches |-> 0,
   full_decrypts |-> 0, temps |-> temps, copies |-> {}, created |-> {},
   removed |-> <<>>, written |-> None, rows |-> <<>>]

\* the body of _decrypt_and_query after the copy c
DecryptCopy(c, cached, dev, keys, src, temp_fate, rows, remove_fates) ==
  IF c.path = 0
  THEN [NoDecrypt(cached, c.temps) EXCEPT !.copies = CopiesOf(c)]
  ELSE QueryDecrypted(c, decrypt_to_temp_file(cached, dev, keys, src, c.temps,
                                              temp_fate),
                      rows, remove_fates)

_decrypt_and_query(cached, dev, keys, src, temps, copy_fate, temp_fate, rows, remove_fates) ==
  DecryptCopy(_copy_file_safely(src, temps, copy_fate), cached, dev, keys, src,
              temp_fate, rows, remove_fates)

\* an argument value: an int, or a str (which a caller may pass where the code
\* expects an int)
IntValue(n) == <<"int", n>>

StrValue(str) == <<"str", str>>

IsInt(value) == value[1] = "int"

\* not value, for an int or a str
Falsy(value) == IF IsInt(value) THEN value[2] = 0 ELSE value[2] = ""

\* messages[:n] for an int n that is not negative
UpToLimit(messages, n) ==
  IF n >= Len(messages) THEN messages ELSE SubSeq(messages, 1, n)

\* c is what _copy_file_safely returned and m what get_messages_from_edb returned
\* on the copy: the return statement (messages[:limit] if limit else messages,
\* a TypeError when limit is a str that is not empty) and the finally clause
ReturnMessages(c, m, limit, remove_fate) ==
  [outcome |-> IF ~m.raised /\ ~Falsy(limit) /\ ~IsInt(limit)
               THEN "TypeError" ELSE m.outcome,
   raised |-> m.raised \/ (~Falsy(limit) /\ ~IsInt(limit)),
   cache |-> m.cache,
   creds_outcome |-> m.creds_outcome, creds |-> m.creds,
   tried |-> m.tried, searches |-> m.searches, full_decrypts |-> m.full_decrypts,
   temps |-> RemoveQuietly(c.path, m.temps, remove_fate),
   copies |-> CopiesOf(c), created |-> m.created, removed |-> m.removed,
   written |-> m.written,
   rows |-> IF m.raised THEN <<>>
            ELSE IF Falsy(limit) THEN m.messages
            ELSE IF IsInt(limit) THEN UpToLimit(m.messages, limit[2])
            ELSE <<>>]

\* the body of get_messages_from_chat after the copy c
MessagesOfCopy(c, cached, dev, keys, src, temp_fate, db, limit, remove_fate) ==
  IF c.path = 0
  THEN [NoDecrypt(cached, c.temps) EXCEPT !.copies = CopiesOf(c)]
  ELSE ReturnMessages(c, get_messages_from_edb(cached, dev, keys, src, c.temps,
                                               temp_fate, db),
                      limit, remove_fate)

\* src = None: chatLogs_<chat_id>.edb does not exist
get_messages_from_chat(cached, dev, keys, src, temps, copy_fate, temp_fate, db, limit, remove_fate) ==
  IF src = None
  THEN NoDecrypt(cached, temps)
  ELSE MessagesOfCopy(_copy_file_safely(src, temps, copy_fate), cached, dev, keys,
                      src, temp_fate, db, limit, remove_fate)

\* what a query returns on the file it is run on: None when sqlite raises
QueryResults == {None, Some(<<>>), Some(<<1>>)}

\* the limit argument: 0 (falsy, no cut), a number of messages, or a str
Limits == {IntValue(0), IntValue(1), StrValue("x")}

ReadSqliteSafely ==
  /\ Cardinality(temp_files) < MaxTemps
  /\ \E src \in HeaderFiles, copy_fate \in CopyFates, rows \in QueryResults,
        remove_fate \in RemoveFates :
       \E r \in {_read_sqlite_safely(src, temp_files, copy_fate, rows, remove_fate)} :
          /\ temp_files' = r.temps
          /\ last' = [NoCall EXCEPT !.op = "_read_sqlite_safely", !.file = src,
                        !.outcome = r.outcome, !.raised = r.raised,
                        !.messages = r.rows, !.copies = r.copies]
          /\ UNCHANGED <<device_info, network_keys, cached_credentials, database,
                         probe, server>>

DecryptAndQuery ==
  /\ Cardinality(temp_files) < MaxTemps
  /\ \E src \in HeaderFiles, copy_fate \in CopyFates, temp_fate \in TempFates,
        rows \in QueryResults, remove_fates \in RemoveFates \X RemoveFates :
       \E r \in {_decrypt_and_query(cached_credentials, device_info, network_keys,
                                    src, temp_files, copy_fate, temp_fate, rows,
                                    remove_fates)} :
          /\ cached_credentials' = r.cache
          /\ temp_files' = r.temps
          /\ last' = [NoCall EXCEPT !.op = "_decrypt_and_query", !.file = src,
                        !.outcome = r.outcome, !.raised = r.raised,
                        !.creds_outcome = r.creds_outcome, !.creds = r.creds,
                        !.tried = r.tried, !.searches = r.searches,
                        !.full_decrypts = r.full_decrypts,
                        !.created = r.created, !.removed = r.removed,
                        !.written = r.written, !.messages = r.rows,
                        !.copies = r.copies]
          /\ UNCHANGED <<device_info, network_keys, database, probe, server>>

GetMessagesFromChat ==
  /\ Cardinality(temp_files) < MaxTemps
  /\ \E src \in HeaderFiles, copy_fate \in CopyFates, temp_fate \in TempFates,
        limit \in Limits, remove_fate \in RemoveFates :
       \E r \in {get_messages_from_chat(cached_credentials, device_info,
                                        network_keys, src, temp_files, copy_fate,
                                        temp_fate, database, limit, remove_fate)} :
          /\ cached_credentials' = r.cache
          /\ temp_files' = r.temps
          /\ last' = [NoCall EXCEPT !.op = "get_messages_from_chat", !.file = src,
                        !.outcome = r.outcome, !.raised = r.raised,
                        !.creds_outcome = r.creds_outcome, !.creds = r.creds,
                        !.tried = r.tried, !.searches = r.searches,
                        !.full_decrypts = r.full_decrypts,
                        !.created = r.created, !.removed = r.removed,
                        !.written = r.written, !.messages = r.rows,
                        !.copies = r.copies]
          /\ UNCHANGED <<device_info, network_keys, database, probe, server>>

\* a database with one table of messages, longer than the row limit
ChatDatabases ==
  {None, Some(<<[name |-> ChatLogs, nrows |-> RowLimit + 1, broken |-> FALSE]>>)}

\* a ChatInfoManager that holds a freshly constructed decryptor, on a machine
\* with one network interface whose registry has the whole device secret or
\* none of it
InitChat ==
  /\ device_info \in {None, Some([uuid |-> 1, model |-> 1, serial |-> 1])}
  /\ network_keys = <<NetKey(16, 0)>>
  /\ cached_credentials = None
  /\ temp_files = {}
  /\ database \in ChatDatabases
  /\ last = NoCall
  /\ probe = NoProbe
  /\ server = NoServer

NextChat == ReadSqliteSafely \/ DecryptAndQuery \/ GetMessagesFromChat

SpecChat == InitChat /\ [][NextChat]_vars

(***************************************************************************)
(* The server module: its lazily built globals and its tool calls.         *)
(* server.decryptors and server.managers are the KakaoDecryptor and        *)
(* ChatInfoManager objects constructed so far; a reference to an object is *)
(* its place in the sequence. Every KakaoDecryptor reads device_info and   *)
(* network_keys from the same registry.                                    *)
(***************************************************************************)
\* a get_chat_manager that builds a new manager for every call
get_chat_manager_anew(srv) ==
  [srv EXCEPT !.decryptors = IF srv._decryptor = 0
                             THEN Append(@, [cached_credentials |-> None]) ELSE @,
              !._decryptor = IF @ = 0 THEN Len(srv.decryptors) + 1 ELSE @,
              !.managers = Append(@, [decryptor |-> IF srv._decryptor = 0
                                                    THEN Len(srv.decryptors) + 1
                                                    ELSE srv._decryptor,
                                      _chat_list_cache |-> 0,
                                      _chat_names_cache |-> FALSE]),
              !._chat_manager = Len(srv.managers) + 1]

\* the server after the call; the value returned is its _decryptor
get_decryptor(srv) ==
  IF srv._decryptor = 0
  THEN [srv EXCEPT !.decryptors = Append(@, [cached_credentials |-> None]),
                   !._decryptor = Len(srv.decryptors) + 1]
  ELSE srv

\* ChatInfoManager(decryptor=get_decryptor()), g being the server after
\* get_decryptor(); _chat_list_cache is the number of chat rooms cached
NewChatManager(g) ==
  [g EXCEPT !.managers = Append(@, [decryptor |-> g._decryptor,
                                    _chat_list_cache |-> 0,
                                    _chat_names_cache |-> FALSE]),
            !._chat_manager = Len(g.managers) + 1]

\* the server after the call; the value returned is its _chat_manager
get_chat_manager(srv) ==
  IF srv._chat_manager = 0 THEN NewChatManager(get_decryptor(srv)) ELSE srv

get_todo_extractor(srv) ==
  IF srv._todo_extractor = 0 THEN [srv EXCEPT !._todo_extractor = 1] ELSE srv

\* self.decryptor of the chat manager
DecryptorOf(srv) == srv.managers[srv._chat_manager].decryptor

\* self.decryptor._cached_credentials of the chat manager
CacheOf(srv) == srv.decryptors[DecryptorOf(srv)].cached_credentials

\* r is what an operation of the chat manager returned: its decryptor keeps the
\* cache the operation left
Stored(srv, r) ==
  [srv EXCEPT !.decryptors[DecryptorOf(srv)].cached_credentials = r.cache]

\* the credentials that _find_working_credentials returned during r
UsedBy(r) == IF r.creds = None THEN {} ELSE {ValueOf(r.creds)}

\* what fails in the environment during one tool call: nothing, the copy2 of
\* _copy_file_safely, or the write of decrypt_to_temp_file (during a tool call
\* every mkstemp and every os.remove succeeds)
Faults == {"none", "copy_copy2", "temp_write"}

CopyFateOf(fault) == IF fault = "copy_copy2" THEN "copy_fails" ELSE "ok"

TempFateOf(fault) == IF fault = "temp_write" THEN "write_fails" ELSE "ok"

\* what a step of a handler leaves: the server, the temporary files, whether it
\* raised and what (outcome), the value it returned and the credentials used
Step(srv, temps, raised, outcome, value, used) ==
  [server |-> srv, temps |-> temps, raised |-> raised, outcome |-> outcome,
   value |-> value, used |-> used]

\* r is what an operation of the chat manager returned
MessagesStep(srv, r) ==
  Step(Stored(srv, r), r.temps, r.raised, r.outcome, r.rows, UsedBy(r))

\* manager.get_messages_from_chat(chat_id, limit) on the server srv, src being
\* the content of chatLogs_<chat_id>.edb
ManagerMessages(srv, temps, src, limit, e) ==
  MessagesStep(srv, get_messages_from_chat(CacheOf(srv), device_info, network_keys,
                                           src, temps, CopyFateOf(e.fault),
                                           TempFateOf(e.fault), database, limit,
                                           "ok"))

\* manager._decrypt_and_query(chat_list_path, query)
ManagerQuery(srv, temps, e) ==
  MessagesStep(srv, _decrypt_and_query(CacheOf(srv), device_info, network_keys,
                                       e.list_src, temps, CopyFateOf(e.fault),
                                       TempFateOf(e.fault), e.rows,
                                       <<"ok", "ok">>))

\* the fallback of _get_chat_names_from_db after q raised: the table names are
\* queried and printed, an exception is swallowed, {} is returned
NamesFallback(q, f) ==
  Step(f.server, f.temps, FALSE, "returned", FALSE, q.used \cup f.used)

\* q is what the first _decrypt_and_query left; the value is whether the names
\* found are cached (a dict that is not empty)
NamesFrom(q, e) ==
  IF q.raised
  THEN NamesFallback(q, ManagerQuery(q.server, q.temps, e))
  ELSE Step([q.server EXCEPT
               !.managers[q.server._chat_manager]._chat_names_cache = (q.value # <<>>)],
            q.temps, FALSE, "returned", q.value # <<>>, q.used)

\* manager._get_chat_names_from_db(); e.list_src = None: no chatListInfo.edb
_get_chat_names_from_db(srv, temps, e) ==
  IF srv.managers[srv._chat_manager]._chat_names_cache \/ e.list_src = None
  THEN Step(srv, temps, FALSE, "returned", FALSE, {})
  ELSE NamesFrom(ManagerQuery(srv, temps, e), e)

\* n is what _get_chat_names_from_db left; the value is the number of chat rooms
RoomsFrom(n, e) ==
  Step([n.server EXCEPT
          !.managers[n.server._chat_manager]._chat_list_cache = e.nchats],
       n.temps, FALSE, "returned", e.nchats, n.used)

\* manager.get_all_chat_rooms(); e.nchats is what list_chat_files() finds
get_all_chat_rooms(srv, temps, e) ==
  IF srv.managers[srv._chat_manager]._chat_list_cache # 0
  THEN Step(srv, temps, FALSE, "returned",
            srv.managers[srv._chat_manager]._chat_list_cache, {})
  ELSE RoomsFrom(_get_chat_names_from_db(srv, temps, e), e)

\* raise TypeError out of the step s
RaiseTypeError(s) == [s EXCEPT !.raised = TRUE, !.outcome = "TypeError", !.value = <<>>]

\* arguments.get(key, default): None stands for a key that the map lacks
Get(arguments, key, default) ==
  IF arguments[key] = None THEN default ELSE ValueOf(arguments[key])

\* the content of chatLogs_<chat_id>.edb: no chat has the default chat_id ""
ChatFileOf(arguments, e) == IF arguments.chat_id = None THEN None ELSE e.src

handle_status(srv, temps) == Step(srv, temps, FALSE, "returned", <<"status">>, {})

\* a is what get_all_chat_rooms left: all_chats[:limit] and the result
RecentChats(a, limit) ==
  IF ~IsInt(limit) THEN RaiseTypeError(a)
  ELSE [a EXCEPT !.value = <<"chats", IF limit[2] < a.value THEN limit[2] ELSE a.value>>]

handle_list_chats(srv, temps, limit, e) ==
  RecentChats(get_all_chat_rooms(get_chat_manager(srv), temps, e), limit)

\* e.match: the name searched for is the name of the chat rooms found
MatchingChats(a, e) == [a EXCEPT !.value = <<"found", IF e.match THEN a.value ELSE 0>>]

handle_search_chat(srv, temps, e) ==
  MatchingChats(get_all_chat_rooms(get_chat_manager(srv), temps, e), e)

\* m is what get_messages_from_chat left: len(messages) and messages[:limit]
MessagesResult(m, limit) ==
  IF m.raised THEN m
  ELSE IF ~IsInt(limit) THEN RaiseTypeError(m)
  ELSE [m EXCEPT !.value = <<"messages", Len(m.value), UpToLimit(m.value, limit[2])>>]

handle_get_messages(srv, temps, src, limit, e) ==
  MessagesResult(ManagerMessages(get_chat_manager(srv), temps, src, limit, e), limit)

\* the todos are computed from the messages read
TodosResult(m) == IF m.raised THEN m ELSE [m EXCEPT !.value = <<"todos", m.value>>]

handle_extract_todos(srv, temps, src, limit, e) ==
  TodosResult(ManagerMessages(get_todo_extractor(get_chat_manager(srv)), temps, src,
                              limit, e))

\* the loop of search_messages over messages that all hold the keyword: a
\* message is appended before len(results) >= limit is looked at
MatchingMessages(m, limit, e) ==
  IF m.raised THEN m
  ELSE IF ~e.match \/ m.value = <<>> THEN [m EXCEPT !.value = <<"matches", <<>>>>]
  ELSE IF ~IsInt(limit) THEN RaiseTypeError(m)
  ELSE [m EXCEPT !.value = <<"matches", IF limit[2] <= 1 THEN <<m.value[1]>>
                                        ELSE UpToLimit(m.value, limit[2])>>]

handle_search_messages(srv, temps, src, limit, e) ==
  MatchingMessages(ManagerMessages(get_chat_manager(srv), temps, src, IntValue(1000),
                                   e),
                   limit, e)

\* a is what the search for the chat left and m the step that follows it
After(a, m) == [m EXCEPT !.used = a.used \cup m.used]

\* a is what search_chat_by_name left: the todos of the first chat found
TodosOfFirst(a, limit, e) ==
  IF ~e.match \/ a.value = 0 THEN [a EXCEPT !.value = <<"success", FALSE>>]
  ELSE After(a, TodosResult(ManagerMessages(a.server, a.temps, e.src, limit, e)))

handle_extract_todos_by_name(srv, temps, limit, e) ==
  TodosOfFirst(get_all_chat_rooms(get_todo_extractor(get_chat_manager(srv)), temps, e),
               limit, e)

\* a is what get_recent_chats left: the loop over the chats, one at most
UrgentOfRecent(a, e) ==
  IF a.value = 0 THEN [a EXCEPT !.value = <<"todos", <<>>>>]
  ELSE After(a, TodosResult(ManagerMessages(a.server, a.temps, e.src, IntValue(200),
                                            e)))

handle_get_urgent_todos(srv, temps, e) ==
  UrgentOfRecent(get_all_chat_rooms(get_todo_extractor(get_chat_manager(srv)), temps,
                                    e),
                 e)

ToolNames == {"kakaotalk_status", "list_chats", "search_chat", "get_messages",
              "extract_todos", "extract_todos_by_name", "search_messages",
              "get_urgent_todos"}

\* the if/elif chain of call_tool for a name of ToolNames
Handle(name, arguments, srv, temps, e) ==
  CASE name = "kakaotalk_status" -> handle_status(srv, temps)
    [] name = "list_chats" ->
         handle_list_chats(srv, temps, Get(arguments, "limit", IntValue(20)), e)
    [] name = "search_chat" -> handle_search_chat(srv, temps, e)
    [] name = "get_messages" ->
         handle_get_messages(srv, temps, ChatFileOf(arguments, e),
                             Get(arguments, "limit", IntValue(100)), e)
    [] name = "extract_todos" ->
         handle_extract_todos(srv, temps, ChatFileOf(arguments, e),
                              Get(arguments, "limit", IntValue(500)), e)
    [] name = "extract_todos_by_name" ->
         handle_extract_todos_by_name(srv, temps,
                                      Get(arguments, "limit", IntValue(500)), e)
    [] name = "search_messages" ->
         handle_search_messages(srv, temps, ChatFileOf(arguments, e),
                                Get(arguments, "limit", IntValue(50)), e)
    [] name = "get_urgent_todos" -> handle_get_urgent_todos(srv, temps, e)

TextContent(text) == [type |-> "text", text |-> text]

\* json.dumps(value, ensure_ascii=False, indent=2)
Json(value) == <<"json", value>>

\* a call_tool without the except clause
Propagated(h) ==
  [server |-> h.server, temps |-> h.temps, raised |-> h.raised,
   handler_raised |-> h.raised,
   outcome |-> IF h.raised THEN h.outcome ELSE "returned", used |-> h.used,
   result |-> IF h.raised THEN <<>> ELSE <<TextContent(Json(h.value))>>]

\* h is what the handler left: its return value, or the except clause of
\* call_tool with str(e) the outcome of the handler
Replied(h) ==
  [server |-> h.server, temps |-> h.temps, raised |-> FALSE,
   handler_raised |-> h.raised,
   outcome |-> IF h.raised THEN h.outcome ELSE "returned", used |-> h.used,
   result |-> IF h.raised THEN <<TextContent(<<"Error: ", h.outcome>>)>>
              ELSE <<TextContent(Json(h.value))>>]

call_tool(name, arguments, srv, temps, e) ==
  IF name \in ToolNames
  THEN Replied(Handle(name, arguments, srv, temps, e))
  ELSE [server |-> srv, temps |-> temps, raised |-> FALSE, handler_raised |-> FALSE,
        outcome |-> "unknown", used |-> {},
        result |-> <<TextContent(<<"Unknown tool: ", name>>)>>]

\* tool names that the server does not have
UnknownNames == {"", "get_message"}

ArgumentMaps ==
  [chat_id : {None, Some("1")},
   limit : {None, Some(IntValue(1)), Some(StrValue("x"))}]

\* the containers of the chats that exist: a whole header block, or less than a
\* block
ServerFiles ==
  {Some(Bytes(<<>>, TRUE)), Some(Bytes(<<0>>, FALSE)), Some(Bytes(<<1>>, FALSE))}

\* chatListInfo.edb: absent, or a whole header block
ListFiles == {None, Some(Bytes(<<1>>, FALSE))}

\* the environment of one tool call: what fails, the container of the chat read,
\* chatListInfo.edb and the rows of its chatRooms table (None: the query
\* fails), the number of chatLogs files and whether the name or keyword
\* searched for is found
Environments(srcs, list_srcs, rows, nchats, matches) ==
  [fault : Faults, src : srcs, list_src : list_srcs, rows : rows, nchats : nchats,
   match : matches]

\* a tool that reads nothing of the environment
NoEnvironment ==
  [fault |-> "none", src |-> None, list_src |-> None, rows |-> None, nchats |-> 0,
   match |-> FALSE]

\* the argument maps without the keys of without
Without(without) == {a \in ArgumentMaps : \A key \in without : a[key] = None}

\* the chats read by chat_id: the container exists when a chat_id is given, and
\* nothing is copied otherwise
ChatInputs(matches) ==
  {a \in ArgumentMaps : a.chat_id = None}
    \X {[NoEnvironment EXCEPT !.match = m] : m \in matches}
  \cup {a \in ArgumentMaps : a.chat_id # None}
    \X Environments(ServerFiles, {None}, {None}, {0}, matches)

\* the list of chat rooms read: without chatListInfo.edb nothing is copied
ListEnvironments(srcs, rows, matches) ==
  {[e EXCEPT !.fault = "none", !.rows = None] :
     e \in Environments(srcs, {None}, rows, {0, 1}, matches)}
  \cup Environments(srcs, ListFiles \ {None}, rows, {0, 1}, matches)

\* the decryptor's cache as the server module reaches it (None: no decryptor)
ServerCache(srv) ==
  IF srv._decryptor = 0 THEN None
  ELSE srv.decryptors[srv._decryptor].cached_credentials

\* inputs: pairs of an argument map and an environment; an input that the tools
\* named do not read is left out of them
CallTool(names, inputs) ==
  /\ Cardinality(temp_files) < MaxTemps
  /\ \E name \in names, input \in inputs :
       \E r \in {call_tool(name, input[1], server, temp_files, input[2])} :
          /\ server' = r.server
          /\ temp_files' = r.temps
          /\ last' = [NoCall EXCEPT !.op = "call_tool", !.name = name,
                        !.outcome = r.outcome, !.raised = r.raised,
                        !.handler_raised = r.handler_raised, !.result = r.result,
                        !.before = ServerCache(server), !.used = r.used]
          /\ UNCHANGED <<device_info, network_keys, cached_credentials, database,
                         probe>>

\* kakaotalk_status and the names that are no tool, with every argument map
CallStatusOrUnknown ==
  CallTool({"kakaotalk_status"} \cup UnknownNames, ArgumentMaps \X {NoEnvironment})

CallListChats ==
  CallTool({"list_chats"},
           Without({"chat_id"})
             \X ListEnvironments({None}, {None, Some(<<1>>)}, {FALSE}))

CallSearchChat ==
  CallTool({"search_chat"},
           Without({"chat_id", "limit"})
             \X ListEnvironments({None}, {None, Some(<<1>>)}, BOOLEAN))

CallGetMessages == CallTool({"get_messages"}, ChatInputs({FALSE}))

CallExtractTodos == CallTool({"extract_todos"}, ChatInputs({FALSE}))

CallSearchMessages == CallTool({"search_messages"}, ChatInputs(BOOLEAN))

\* without a chat room of the name searched for the result is that of nchats = 0
CallExtractTodosByName ==
  CallTool({"extract_todos_by_name"},
           Without({"chat_id"})
             \X Environments(ServerFiles, ListFiles, {Some(<<1>>)}, {0, 1}, {TRUE}))

CallGetUrgentTodos ==
  CallTool({"get_urgent_todos"},
           Without({"chat_id", "limit"})
             \X Environments(ServerFiles, ListFiles, {Some(<<1>>)}, {0, 1}, {FALSE}))

\* the module globals of server.py:33-35, on a machine whose registry has the
\* whole device secret
InitServer == InitChat /\ device_info # None

NextServer ==
  \/ CallStatusOrUnknown
  \/ CallListChats
  \/ CallSearchChat
  \/ CallGetMessages
  \/ CallExtractTodos
  \/ CallSearchMessages
  \/ CallExtractTodosByName
  \/ CallGetUrgentTodos

SpecServer == InitServer /\ [][NextServer]_vars

(***************************************************************************)
(* Properties.                                                             *)
(***************************************************************************)
Range(seq) == {seq[i] : i \in 1..Len(seq)}

UpTo(n) == [i \in 1..n |-> i]

\* the (key, iv) of identifier user_id decrypts the first window of enc_db to a
\* valid header
Validates(pragma, enc_db, user_id) ==
  LET kv  == generate_key_and_iv(pragma, user_id)
      dec == decrypt_database(kv.key, kv.iv, Slice(enc_db, 0, WindowBlocks))
  IN ~dec.raised /\ verify_sqlite_header(dec.data)

\* the first window of enc_db is a whole number of blocks
FirstWindowAligned(enc_db) == ~Slice(enc_db, 0, WindowBlocks).partial

SixteenBytes(n) == network_keys[n].len = 16

PragmaOfCandidate(n) ==
  generate_pragma(ValueOf(device_info).uuid, ValueOf(device_info).model,
                  ValueOf(device_info).serial, network_keys[n])

\* the find_user_id search of candidate n succeeds on enc_db
CandidateSucceeds(n, enc_db) ==
  /\ SixteenBytes(n)
  /\ \E u \in 1..CappedAttempts : Validates(PragmaOfCandidate(n), enc_db, u)

\* candidate n was searched through the whole capped bound in the last call
FullyTried(n) == \A u \in 1..CappedAttempts : <<n, u>> \in Range(last.tried)

NeverTried(n) == \A u \in 1..CappedAttempts : <<n, u>> \notin Range(last.tried)

\* the credentials returned are those of the earliest candidate whose search
\* succeeds, with its smallest identifier, and no later candidate was tried
ReturnsEarliestCandidate ==
  last.creds_outcome = "found" =>
    \E n \in 1..Len(network_keys) :
      /\ CandidateSucceeds(n, ValueOf(last.file))
      /\ \A m \in 1..(n - 1) : ~CandidateSucceeds(m, ValueOf(last.file))
      /\ ValueOf(last.creds).network_key = network_keys[n]
      /\ ValueOf(last.creds).pragma = PragmaOfCandidate(n)
      /\ Validates(PragmaOfCandidate(n), ValueOf(last.file), ValueOf(last.creds).user_id)
      /\ \A u \in 1..(ValueOf(last.creds).user_id - 1) :
           ~Validates(PragmaOfCandidate(n), ValueOf(last.file), u)
      /\ \A m \in (n + 1)..Len(network_keys) : NeverTried(m)
      /\ \A k \in 1..(Len(last.tried) - 1) : last.tried[k][1] <= last.tried[k + 1][1]

\* C2 as stated: the earliest succeeding candidate is returned, and
\* CredentialsNotFound is returned only if every candidate of the list has been
\* searched through the whole capped bound.
C2_Original ==
  last.op = "decrypt_file" =>
    /\ ReturnsEarliestCandidate
    /\ last.creds_outcome = "CredentialsNotFound" =>
         \A n \in 1..Len(network_keys) : FullyTried(n)

\* C2 amended: the earliest succeeding candidate is returned, trying none after
\* it, and CredentialsNotFound is returned only if every candidate that decodes
\* to exactly 16 bytes has been searched through the whole capped bound without
\* a header match; a candidate of another length is skipped without a search.
C2_SkipsOtherLengths ==
  last.op = "decrypt_file" =>
    /\ ReturnsEarliestCandidate
    /\ last.creds_outcome = "CredentialsNotFound" =>
         \A n \in 1..Len(network_keys) :
           /\ SixteenBytes(n) => FullyTried(n) /\ ~CandidateSucceeds(n, ValueOf(last.file))
           /\ ~SixteenBytes(n) => NeverTried(n)
    /\ last.searches = Cardinality({t[1] : t \in Range(last.tried)})

\* a search that skipped a candidate of another length, exhausted a 16-byte one
\* and gave up
C2_Witness ==
  /\ last.op = "decrypt_file"
  /\ last.creds_outcome = "CredentialsNotFound"
  /\ \E n, m \in 1..Len(network_keys) : ~SixteenBytes(n) /\ SixteenBytes(m)
  /\ Len(last.tried) = CappedAttempts

\* C3: before the first call the cache is empty; once it holds a value no later
\* decrypt_file or get_messages_from_edb call, successful or not, on whatever
\* file, changes or clears it, and every later _find_working_credentials call
\* returns the cached value without any search.
C3_CacheNeverChanges ==
  /\ [](last.op = "none" => cached_credentials = None)
  /\ [][cached_credentials # None =>
          /\ cached_credentials' = cached_credentials
          /\ last'.searches = 0
          /\ last'.tried = <<>>
          /\ last'.file # None =>
               last'.creds_outcome = "cached" /\ last'.creds = cached_credentials]_vars

\* a call that failed on the cached credentials of an earlier file, the cache
\* still holding them
C3_Witness ==
  /\ cached_credentials # None
  /\ last.op = "get_messages_from_edb"
  /\ last.creds_outcome = "cached"
  /\ last.outcome = "DecryptionFailed"
  /\ last.creds = cached_credentials

BeginsWithMagic(data) == Len(data.blocks) >= 1 /\ data.blocks[1] = Magic

\* the whole-file decryption of file under creds
PlainUnder(creds, file) ==
  LET kv == generate_key_and_iv(ValueOf(creds).pragma, ValueOf(creds).user_id)
  IN decrypt_database(kv.key, kv.iv, ValueOf(file))

\* the whole-file decryption of file under creds goes through and does not
\* begin with the magic literal
FailsValidation(creds, file) ==
  LET plain == PlainUnder(creds, file)
  IN ~plain.raised /\ ~BeginsWithMagic(plain.data)

\* C4: every plaintext that decrypt_file returns and every temp file that
\* decrypt_to_temp_file writes is the decryption of the file under the
\* credentials used and begins with the magic literal; when the decryption does
\* not begin with it the call ends DecryptionFailed, returns no plaintext and
\* writes no temp file.
C4_OnlyValidPlaintext ==
  /\ last.value # None =>
       /\ BeginsWithMagic(ValueOf(last.value))
       /\ ValueOf(last.value) = PlainUnder(last.creds, last.file).data
       /\ last.outcome = "ok"
  /\ last.written # None =>
       /\ BeginsWithMagic(ValueOf(last.written))
       /\ ValueOf(last.written) = PlainUnder(last.creds, last.file).data
  /\ (last.creds # None /\ FailsValidation(last.creds, last.file)) =>
       /\ last.outcome = "DecryptionFailed"
       /\ ~last.raised
       /\ last.value = None /\ last.written = None /\ last.created = {}

\* an extraction whose decryption did not begin with the magic literal
C4_Witness ==
  /\ last.op = "get_messages_from_edb"
  /\ last.creds # None
  /\ FailsValidation(last.creds, last.file)
  /\ last.outcome = "DecryptionFailed"

\* C5 as stated: with the cache holding a value, a new credential search is run
\* when and only when the decryption under the cached credentials fails the
\* header validation.
C5_Original ==
  [][(cached_credentials # None /\ last'.file # None) =>
       ((last'.searches > 0) <=> FailsValidation(cached_credentials, last'.file))]_vars

\* C5 amended: cached credentials are trusted across container files and no new
\* search is ever run once the cache holds a value: a decryption under the
\* cached credentials that fails the header validation ends DecryptionFailed
\* without any search; a search is run only when the cache is empty on entry.
C5_TrustsCacheNeverReSearches ==
  [][/\ (cached_credentials # None /\ last'.file # None) =>
          /\ last'.searches = 0
          /\ last'.creds = cached_credentials
          /\ last'.full_decrypts = 1
          /\ FailsValidation(cached_credentials, last'.file) =>
               last'.outcome = "DecryptionFailed" /\ last'.value = None
     /\ last'.searches > 0 => cached_credentials = None]_vars

\* a decryption under credentials cached from an earlier file that failed the
\* validation of this file, although a search against this file would succeed
C5_Witness ==
  /\ last.op = "decrypt_file"
  /\ last.creds_outcome = "cached"
  /\ last.outcome = "DecryptionFailed"
  /\ \E n \in 1..Len(network_keys) : CandidateSucceeds(n, ValueOf(last.file))

\* C6: a call whose full decryption fails the header validation ends
\* DecryptionFailed after that single decryption: no second decryption, no
\* credential search, no plaintext, nothing raised, and the cache as it was.
C6_FailureSurfacedOnce ==
  [][last'.outcome = "DecryptionFailed" =>
       /\ last'.full_decrypts = 1
       /\ last'.searches = 0
       /\ last'.value = None
       /\ ~last'.raised
       /\ cached_credentials' = cached_credentials]_vars

\* a failed validation that left a populated cache in place
C6_Witness ==
  /\ last.op = "decrypt_file"
  /\ last.outcome = "DecryptionFailed"
  /\ last.full_decrypts = 1
  /\ cached_credentials # None

DeviceComplete ==
  /\ device_info # None
  /\ ValueOf(device_info).uuid # 0
  /\ ValueOf(device_info).model # 0
  /\ ValueOf(device_info).serial # 0

\* C9: with a device secret that is absent or lacks uuid, model or serial, every
\* call that reaches _find_working_credentials ends MissingDeviceInfo at once:
\* no find_user_id call, no identifier tried, no decryption, no plaintext, and
\* the cache stays empty, on the first call and on every later one.
C9_MissingDeviceInfo ==
  ~DeviceComplete =>
    /\ cached_credentials = None
    /\ (last.op # "none" /\ last.file # None) =>
         /\ last.creds_outcome = "MissingDeviceInfo"
         /\ last.outcome = "MissingDeviceInfo"
         /\ last.searches = 0
         /\ last.tried = <<>>
         /\ last.full_decrypts = 0
         /\ last.value = None
         /\ ~last.raised

\* a call on a non-empty file with usable network keys and a device secret that
\* lacks only its serial
C9_Witness ==
  /\ device_info # None
  /\ ValueOf(device_info).uuid # 0
  /\ ValueOf(device_info).serial = 0
  /\ \E n \in 1..Len(network_keys) : SixteenBytes(n)
  /\ last.op = "decrypt_file"
  /\ last.file # None
  /\ ValueOf(last.file).blocks # <<>>
  /\ last.outcome = "MissingDeviceInfo"

\* AES-CBC encryption of one window: C[i] = E(P[i] xor C[i-1]), C[0] = iv
RECURSIVE CbcEncrypt(_, _, _)
CbcEncrypt(key, iv, blocks) ==
  IF blocks = <<>> THEN <<>>
  ELSE LET front == CbcEncrypt(key, iv, SubSeq(blocks, 1, Len(blocks) - 1))
           prev  == IF front = <<>> THEN iv ELSE front[Len(front)]
       IN Append(front, BlockEncrypt(key, (blocks[Len(blocks)] + prev) % NB))

\* the window-wise encryption of a block-aligned plaintext
RECURSIVE EncryptFrom(_, _, _, _)
EncryptFrom(key, iv, plain, i) ==
  IF i >= Len(plain.blocks) THEN EmptyBytes
  ELSE Concat(Bytes(CbcEncrypt(key, iv, Slice(plain, i, WindowBlocks).blocks), FALSE),
              EncryptFrom(key, iv, plain, i + WindowBlocks))

EncryptDatabase(key, iv, plain) == EncryptFrom(key, iv, plain, 0)

\* the plaintexts that start with the magic literal
MagicPlaintexts == {b \in AllBytes : ~b.partial /\ BeginsWithMagic(b)}

\* the last call was decrypt_file, on an empty cache, of the encryption of plain
\* under the credentials of identifier n and the single network key
RoundTripOf(n, plain) ==
  /\ DeviceComplete
  /\ Len(network_keys) = 1
  /\ SixteenBytes(1)
  /\ last.op = "decrypt_file"
  /\ last.creds_outcome # "cached"
  /\ LET kv == generate_key_and_iv(PragmaOfCandidate(1), n)
     IN last.file = Some(EncryptDatabase(kv.key, kv.iv, plain))

RoundTripHolds(n, plain) ==
  /\ last.value = Some(plain)
  /\ last.creds # None
  /\ ValueOf(last.creds).user_id = n
  /\ cached_credentials = last.creds

C7_TempFileGoneOnEveryPath ==
  last.op = "get_messages_from_edb" =>
    \A t \in last.created :
      /\ t \notin temp_files
      /\ Cardinality({k \in 1..Len(last.removed) : last.removed[k] = t}) = 1

\* the rows of the result that come from table name
RowsFrom(name) == SelectSeq(last.messages, LAMBDA row : row[1] = name)

\* the place in the catalog of the table a row comes from
PlaceOf(row) == CHOOSE i \in 1..Len(ValueOf(database)) : ValueOf(database)[i].name = row[1]

\* rows are the most recent rows of table, newest first, RowLimit at most
MostRecentRows(rows, table) ==
  /\ Len(rows) = (IF table.nrows < RowLimit THEN table.nrows ELSE RowLimit)
  /\ \A k \in 1..Len(rows) : rows[k] = <<table.name, table.nrows + 1 - k>>

\* C8: an extraction that reached the catalog raises nothing whatever tables
\* fail: every selected table is queried, the result holds exactly the rows of
\* the selected tables whose query succeeded, table after table in catalog
\* order, and nothing of the tables whose query failed.
C8_PartialFailureTolerated ==
  (last.op = "get_messages_from_edb" /\ last.written # None /\ database # None) =>
    LET catalog == ValueOf(database)
    IN /\ ~last.raised
       /\ last.outcome = "ok"
       /\ \A i \in 1..Len(catalog) :
            /\ IsMessageTable(catalog[i].name) => i \in last.queried
            /\ IF IsMessageTable(catalog[i].name) /\ ~catalog[i].broken
               THEN MostRecentRows(RowsFrom(catalog[i].name), catalog[i])
               ELSE RowsFrom(catalog[i].name) = <<>>
       /\ \A k \in 1..Len(last.messages) :
            \E i \in 1..Len(catalog) : catalog[i].name = last.messages[k][1]
       /\ \A k \in 1..(Len(last.messages) - 1) :
            PlaceOf(last.messages[k]) <= PlaceOf(last.messages[k + 1])

\* an extraction from a catalog whose first table fails its query and whose
\* second table is read
C8_Witness ==
  /\ last.op = "get_messages_from_edb"
  /\ last.written # None
  /\ database # None
  /\ Len(ValueOf(database)) = 2
  /\ IsMessageTable(ValueOf(database)[1].name) /\ ValueOf(database)[1].broken
  /\ IsMessageTable(ValueOf(database)[2].name) /\ ~ValueOf(database)[2].broken
  /\ last.messages # <<>>
  /\ last.queried = {1, 2}

\* the windows of a byte string, counted from 1
NumWindows(data) == (Len(data.blocks) + WindowBlocks - 1) \div WindowBlocks

Window(data, k) == Slice(data, (k - 1) * WindowBlocks, WindowBlocks)

\* C11: decrypt_database decrypts window after window, each with a fresh CBC
\* state started from the same iv: the output is as long as the input, its k-th
\* window is the CBC decryption of the k-th input window under (key, iv), and
\* two inputs of the same length give the same k-th output window wherever
\* their k-th input windows are equal.
C11_WindowsIndependent ==
  (probe.kind = "decrypt_database" /\ probe.done /\ ~probe.result.raised) =>
    /\ Len(probe.result.data.blocks) = Len(probe.enc_db.blocks)
    /\ probe.result.data.partial = probe.enc_db.partial
    /\ \A k \in 1..NumWindows(probe.enc_db) :
         /\ Window(probe.result.data, k).blocks =
              CbcDecrypt(probe.key, probe.iv, Window(probe.enc_db, k).blocks)
         /\ (~probe.other_result.raised
             /\ Window(probe.enc_db, k) = Window(probe.other, k))
            => Window(probe.result.data, k) = Window(probe.other_result.data, k)

\* two ciphertexts of two windows, the second one shorter, that differ in the
\* first window only: their plaintexts differ there and agree in the second
C11_Witness ==
  /\ probe.kind = "decrypt_database" /\ probe.done
  /\ ~probe.result.raised /\ ~probe.other_result.raised
  /\ NumWindows(probe.enc_db) = 2
  /\ Len(probe.enc_db.blocks) < 2 * WindowBlocks
  /\ Window(probe.enc_db, 1) # Window(probe.other, 1)
  /\ Window(probe.enc_db, 2) = Window(probe.other, 2)
  /\ Window(probe.result.data, 1) # Window(probe.other_result.data, 1)
  /\ Window(probe.result.data, 2) = Window(probe.other_result.data, 2)

\* the table names of the model that contain "log" or "message" in some casing
NamesWithLogOrMessage == {ChatLogs, <<"M", "E", "S", "S", "A", "G", "E", "S">>}

\* C12: an extraction that reached the catalog queries exactly the tables whose
\* name contains "log" or "message" in whatever casing, takes at most RowLimit
\* rows of each, the most recent first, and nothing of any other table: the
\* result has at most RowLimit rows per selected table.
C12_OnlyMessageTables ==
  (last.op = "get_messages_from_edb" /\ last.written # None /\ database # None) =>
    LET catalog  == ValueOf(database)
        selected == {i \in 1..Len(catalog) : catalog[i].name \in NamesWithLogOrMessage}
    IN /\ last.queried = selected
       /\ \A i \in 1..Len(catalog) :
            LET rows == RowsFrom(catalog[i].name)
            IN /\ Len(rows) <= RowLimit
               /\ i \notin selected => rows = <<>>
               /\ rows # <<>> => rows[1][2] = catalog[i].nrows
               /\ \A k \in 1..(Len(rows) - 1) : rows[k][2] = rows[k + 1][2] + 1
       /\ \A k \in 1..Len(last.messages) :
            \E i \in selected : catalog[i].name = last.messages[k][1]
       /\ Len(last.messages) <= RowLimit * Cardinality(selected)

\* an extraction from a catalog with a table of more than RowLimit rows whose
\* name matches only after case folding, and a table whose name does not match
C12_Witness ==
  /\ last.op = "get_messages_from_edb"
  /\ last.written # None
  /\ database # None
  /\ \E i, j \in 1..Len(ValueOf(database)) :
       /\ ValueOf(database)[i].name = ChatLogs
       /\ ValueOf(database)[i].nrows > RowLimit
       /\ ~ValueOf(database)[i].broken
       /\ ValueOf(database)[j].name \notin NamesWithLogOrMessage
  /\ Len(last.messages) = RowLimit
  /\ Cardinality(last.queried) = 1

\* what a decryptor with an empty cache returns for the file of the next call
FreshResult(file) == decrypt_file(None, device_info, network_keys, file)

\* every call creates a temp file that is on disk under no other call, deletes
\* no file but its own and leaves the files of other calls alone
TempFilesNeverShared ==
  /\ last'.created \cap temp_files = {}
  /\ Range(last'.removed) \subseteq last'.created
  /\ temp_files \subseteq temp_files'

\* C13 as stated: no temp file is shared, and the result of decrypting a file
\* does not depend on the files the same decryptor decrypted before.
C13_Original ==
  [][last'.file # None =>
       /\ TempFilesNeverShared
       /\ last'.op = "decrypt_file" => last'.value = FreshResult(last'.file).value
       /\ last'.written # None => last'.written = FreshResult(last'.file).value]_vars

\* C13 amended: no temp file is shared; the credential cache is shared between
\* the files, and the result for a file is the one of a decryptor with an empty
\* cache whenever the cache is empty or holds the credentials a search against
\* this file finds; otherwise the file is decrypted under the cached credentials
\* of an earlier file.
C13_SharesOnlyTheCache ==
  [][last'.file # None =>
       /\ TempFilesNeverShared
       /\ (cached_credentials = None
           \/ cached_credentials = FreshResult(last'.file).creds) =>
            /\ last'.op = "decrypt_file" => last'.value = FreshResult(last'.file).value
            /\ last'.written # None => last'.written = FreshResult(last'.file).value
       /\ cached_credentials # None =>
            /\ last'.creds = cached_credentials
            /\ last'.written # None =>
                 last'.written = Some(PlainUnder(cached_credentials, last'.file).data)]_vars

\* an extraction under cached credentials that created and removed its own temp
\* file while the file an earlier call left behind was on disk
C13_Witness ==
  /\ last.op = "get_messages_from_edb"
  /\ last.creds_outcome = "cached"
  /\ last.created # {}
  /\ Range(last.removed) = last.created
  /\ temp_files # {}
  /\ temp_files \cap last.created = {}

\* C14: over every order of decrypt_file calls on one decryptor the cache is
\* written at most once: a call changes it only from empty, only to the
\* credentials its own successful search returned, and once it holds a value
\* no call changes it or searches again.
C14_CommittedAtMostOnce ==
  [][/\ cached_credentials' # cached_credentials =>
          /\ cached_credentials = None
          /\ last'.creds_outcome = "found"
          /\ last'.searches > 0
          /\ cached_credentials' = last'.creds
     /\ (cached_credentials = None /\ last'.creds_outcome = "found") =>
          cached_credentials' = last'.creds
     /\ cached_credentials # None =>
          /\ last'.searches = 0
          /\ last'.creds_outcome \in {"cached", "none"}]_vars

\* a call that found nothing new to commit: the cache holds the credentials of
\* an earlier file although a search against this file would find other ones
C14_Witness ==
  /\ last.op = "decrypt_file"
  /\ last.creds_outcome = "cached"
  /\ last.file # None
  /\ LET fresh == decrypt_file(None, device_info, network_keys, last.file)
     IN fresh.creds_outcome = "found" /\ fresh.creds # cached_credentials

\* decrypt_database raises, with no output, exactly on a length that is not a
\* multiple of 16
RaisesOnEveryUnalignedLength(enc_db) ==
  \A key \in BlockValues, iv \in BlockValues :
    LET d == decrypt_database(key, iv, enc_db)
    IN /\ d.raised <=> enc_db.partial
       /\ d.raised => d.data = EmptyBytes

\* C15 as stated: decrypt_database raises on every length that is not a
\* multiple of 16, and for a container of such a length find_user_id and
\* decrypt_file end with that error too: no plaintext and no "not found".
C15_Original ==
  (last.op = "decrypt_file" /\ last.file # None) =>
    LET enc_db == ValueOf(last.file)
    IN /\ RaisesOnEveryUnalignedLength(enc_db)
       /\ enc_db.partial =>
            /\ last.value = None
            /\ last.searches > 0 => (last.raised /\ last.outcome = "ValueError")
            /\ \A pragma \in Pragmas :
                 find_user_id(pragma, enc_db, CappedAttempts).status = "raised"

\* C15 amended: decrypt_database raises, with no output, on every length that is
\* not a multiple of 16.  find_user_id raises exactly when the first window has
\* such a length and one attempt at least is made.  decrypt_file never returns
\* plaintext for such a container: it raises whenever it obtained credentials
\* or searched an unaligned first window, and otherwise ends MissingDeviceInfo
\* or CredentialsNotFound as for any container; a container of a whole number
\* of blocks raises nothing.
C15_RaisesWhereTheLengthIsSeen ==
  (last.op = "decrypt_file" /\ last.file # None) =>
    LET enc_db == ValueOf(last.file)
    IN /\ RaisesOnEveryUnalignedLength(enc_db)
       /\ \A pragma \in Pragmas, max_attempts \in {0, 1, CappedAttempts} :
            (find_user_id(pragma, enc_db, max_attempts).status = "raised")
              <=> (max_attempts >= 1 /\ ~FirstWindowAligned(enc_db))
       /\ last.raised <=> last.outcome = "ValueError"
       /\ ~enc_db.partial => ~last.raised
       /\ enc_db.partial =>
            /\ last.value = None
            /\ last.outcome \in {"ValueError", "MissingDeviceInfo", "CredentialsNotFound"}
            /\ last.creds # None => last.raised
            /\ (last.searches > 0 /\ ~FirstWindowAligned(enc_db)) =>
                 (last.raised /\ Len(last.tried) = 1)
            /\ (last.outcome = "CredentialsNotFound" /\ last.searches > 0) =>
                 FirstWindowAligned(enc_db)

\* a container longer than one window whose length is not a multiple of 16 and
\* whose search ran through its bound and ended CredentialsNotFound
C15_Witness ==
  /\ last.op = "decrypt_file"
  /\ last.file # None
  /\ ValueOf(last.file).partial
  /\ Len(ValueOf(last.file).blocks) >= WindowBlocks
  /\ last.searches > 0
  /\ last.outcome = "CredentialsNotFound"

\* C16 as stated: generate_pragma fails for every key that is not exactly 16
\* bytes long and succeeds for every 16-byte key.
C16_Original ==
  (probe.kind = "generate_pragma" /\ probe.done) =>
    (probe.result.raised <=> probe.key.len # 16)

\* C16 amended: generate_pragma fails, returning nothing, for every key whose
\* length is not 16, 24 or 32 bytes, and returns the pragma of its arguments
\* for every key of one of these lengths.
C16_AcceptsEveryAesKeySize ==
  (probe.kind = "generate_pragma" /\ probe.done) =>
    /\ probe.result.raised <=> probe.key.len \notin {16, 24, 32}
    /\ probe.result.raised => probe.result.value = None
    /\ ~probe.result.raised =>
         /\ probe.result.value # None
         /\ ValueOf(probe.result.value) \in Pragmas
         /\ ValueOf(probe.result.value) =
              generate_pragma(probe.uuid, probe.model, probe.serial, probe.key)

\* a pragma derived from a 24-byte key
C16_Witness ==
  /\ probe.kind = "generate_pragma" /\ probe.done
  /\ probe.key.len = 24
  /\ ~probe.result.raised
  /\ probe.result.value # None

\* the first n characters of seed repeated for ever
RepeatedPrefix(seed, n) == [i \in 1..n |-> seed[((i - 1) % Len(seed)) + 1]]

\* C17: for every non-empty pragma and every user_id string the doubling loop
\* of generate_key_and_iv comes to an end, and the string that is hashed has
\* exactly KeyChars characters: the first KeyChars characters of pragma + user_id
\* repeated for ever.
C17_KeyMaterialTerminates ==
  /\ [](probe.kind = "generate_key_and_iv" /\ probe.pc = "done" =>
          /\ Len(probe.key) = KeyChars
          /\ probe.key = RepeatedPrefix(probe.pragma \o probe.user_id, KeyChars))
  /\ (probe.kind = "generate_key_and_iv" /\ probe.pragma # <<>>) =>
       <>(probe.pc = "done")

\* a call whose string was doubled past KeyChars characters and cut in the
\* middle of a copy of pragma + user_id, the identifier having two digits
C17_Witness ==
  /\ probe.kind = "generate_key_and_iv"
  /\ probe.pc = "done"
  /\ probe.pragma # <<>>
  /\ Len(probe.user_id) = 2
  /\ KeyChars % Len(probe.pragma \o probe.user_id) # 0
  /\ probe.key # <<>>

\* data holds 16 bytes at least
HasSixteenBytes(data) == Len(data.blocks) >= 1

\* a and b are equally long and differ in their first 16 bytes only
DifferInFirstBlockOnly(a, b) ==
  /\ HasSixteenBytes(a) /\ HasSixteenBytes(b)
  /\ a.blocks[1] # b.blocks[1]
  /\ Tail(a.blocks) = Tail(b.blocks)
  /\ a.partial = b.partial

\* a and b have the same first 16 bytes
SameFirstBlock(a, b) ==
  HasSixteenBytes(a) /\ HasSixteenBytes(b) /\ a.blocks[1] = b.blocks[1]

\* C18: verify_sqlite_header is true exactly when the first 16 bytes are the
\* magic literal: false for data shorter than 16 bytes, false after a change
\* inside the first 16 bytes of valid data, and the same for two byte strings
\* with the same first 16 bytes, whatever follows them.
C18_HeaderIsFirstSixteenBytes ==
  (probe.kind = "verify_sqlite_header" /\ probe.done) =>
    /\ probe.result <=> (HasSixteenBytes(probe.data) /\ probe.data.blocks[1] = Magic)
    /\ ~HasSixteenBytes(probe.data) => ~probe.result
    /\ (probe.result /\ DifferInFirstBlockOnly(probe.data, probe.other)) =>
         ~probe.other_result
    /\ SameFirstBlock(probe.data, probe.other) =>
         (probe.result <=> probe.other_result)

\* valid data, and the same data with its tail changed and the literal moved
\* behind a first block that is not the literal
C18_Witness ==
  /\ probe.kind = "verify_sqlite_header" /\ probe.done
  /\ probe.result
  /\ ~probe.other_result
  /\ Len(probe.data.blocks) >= 2
  /\ Len(probe.other.blocks) >= 2
  /\ probe.other.blocks[2] = Magic

\* the header checks of the last call that belong to candidate n
ChecksOf(n) == {k \in 1..Len(last.tried) : last.tried[k][1] = n}

\* C19: a _find_working_credentials call ends after a bounded number of header
\* checks: the search of a candidate checks identifiers of 1..CappedAttempts,
\* each once, a bound below the default one of find_user_id, so the call makes
\* at most CappedAttempts checks per candidate before it returns; a call that
\* finds the cache filled makes none.
C19_BoundedSearch ==
  (last.op = "decrypt_file" /\ last.file # None) =>
    /\ CappedAttempts < DefaultMaxAttempts
    /\ last.creds_outcome \in
         {"cached", "found", "CredentialsNotFound", "MissingDeviceInfo", "ValueError"}
    /\ Len(last.tried) <= CappedAttempts * Len(network_keys)
    /\ last.searches <= Len(network_keys)
    /\ \A n \in 1..Len(network_keys) : Cardinality(ChecksOf(n)) <= CappedAttempts
    /\ \A k \in 1..Len(last.tried) :
         /\ last.tried[k][1] \in 1..Len(network_keys)
         /\ last.tried[k][2] \in 1..CappedAttempts
    /\ \A j, k \in 1..Len(last.tried) : j # k => last.tried[j] # last.tried[k]
    /\ last.creds_outcome = "cached" => (last.tried = <<>> /\ last.searches = 0)

\* a call that searched two candidates through the whole capped bound
C19_Witness ==
  /\ last.op = "decrypt_file"
  /\ last.creds_outcome = "CredentialsNotFound"
  /\ Len(network_keys) = 2
  /\ Len(last.tried) = CappedAttempts * Len(network_keys)
  /\ last.searches = 2

\* C20: credentials that the search of a decrypt_file call found against the
\* file of that call always pass the header validation of the call: the call
\* returns the plaintext, or the cipher refuses the length of the file before
\* the validation; DecryptionFailed comes only with credentials taken from the
\* cache.
C20_FoundCredentialsValidate ==
  (last.op = "decrypt_file" /\ last.file # None) =>
    /\ last.creds_outcome = "found" =>
         /\ last.outcome \in {"ok", "ValueError"}
         /\ last.outcome = "ValueError" => ValueOf(last.file).partial
         /\ last.outcome = "ok" =>
              /\ last.value = Some(PlainUnder(last.creds, last.file).data)
              /\ BeginsWithMagic(ValueOf(last.value))
         /\ ~FailsValidation(last.creds, last.file)
    /\ last.outcome = "DecryptionFailed" =>
         /\ last.creds_outcome = "cached"
         /\ last.searches = 0

\* a file longer than one window decrypted under credentials that the same
\* call found, the identifier not being the first one tried
C20_Witness ==
  /\ last.op = "decrypt_file"
  /\ last.creds_outcome = "found"
  /\ last.outcome = "ok"
  /\ Len(ValueOf(last.file).blocks) > WindowBlocks
  /\ ValueOf(last.creds).user_id >= 2
  /\ last.full_decrypts = 1

\* the operations of ChatInfoManager that copy a source file
CopyingOperations == {"_read_sqlite_safely", "_decrypt_and_query",
                      "get_messages_from_chat"}

\* C21 as stated: every temporary copy of a source file that ChatInfoManager
\* creates in get_messages_from_chat, _decrypt_and_query or _read_sqlite_safely
\* no longer exists when the operation returns, whatever the path taken.
C21_CopyGoneOnEveryPath ==
  last.op \in CopyingOperations => last.copies \cap temp_files = {}

\* C22: after any sequence of tool calls the server has constructed at most one
\* KakaoDecryptor and at most one ChatInfoManager, _decryptor and _chat_manager
\* are those (so get_decryptor() constructs nothing more and returns the same
\* one), the chat manager holds the decryptor that _decryptor is, and a tool call
\* that begins with credentials in its cache uses those and no others and leaves
\* them in the cache, as does a call that finds credentials itself.
C22_OneDecryptorOneManager ==
  /\ Len(server.decryptors) <= 1
  /\ Len(server.managers) <= 1
  /\ server._decryptor = Len(server.decryptors)
  /\ server._chat_manager = Len(server.managers)
  /\ get_decryptor(get_decryptor(server)) = get_decryptor(server)
  /\ server._chat_manager # 0 =>
       /\ server._decryptor # 0
       /\ DecryptorOf(server) = server._decryptor
  /\ last.op = "call_tool" =>
       /\ \A creds \in last.used : ServerCache(server) = Some(creds)
       /\ last.before # None => ServerCache(server) = last.before

\* a tool call that decrypts with the credentials that an earlier tool call
\* cached in the one decryptor
C22_Witness ==
  /\ last.op = "call_tool"
  /\ last.name = "get_messages"
  /\ last.before # None
  /\ last.used = {ValueOf(last.before)}
  /\ Len(server.decryptors) = 1
  /\ Len(server.managers) = 1

\* C23: call_tool raises nothing for any tool name and argument map: it returns
\* one text content, which is "Unknown tool: <name>" for a name that is no tool
\* and "Error: <message>" when the handler raised, whatever raised inside it.
C23_CallToolNeverRaises ==
  last.op = "call_tool" =>
    /\ ~last.raised
    /\ Len(last.result) = 1
    /\ last.result[1].type = "text"
    /\ last.name \notin ToolNames =>
         last.result[1].text = <<"Unknown tool: ", last.name>>
    /\ last.handler_raised => last.result[1].text = <<"Error: ", last.outcome>>

\* a tool call whose handler let an exception of the decryption through
C23_Witness ==
  /\ last.op = "call_tool"
  /\ last.name = "get_urgent_todos"
  /\ last.handler_raised
  /\ last.outcome = "ValueError"
  /\ last.result = <<TextContent(<<"Error: ", "ValueError">>)>>

====
